---- MODULE Spec2Model ----
(***************************************************************************)
(* A model of the script-environment and function-hook subsystem of        *)
(* xoron_env.cpp: the closure hook engine (hookfunction, restorefunction,  *)
(* isexecutorclosure) over the process-wide g_hook_registry and the Lua    *)
(* registry's reference slots, the environment caches (getsenv, getgenv,   *)
(* getmenv), hookmetamethod, the connection list, the thread identities,   *)
(* the registry scans (getgc, filtergc), and the VM handle of              *)
(* xoron_luau.cpp that opens and closes the Lua states.                    *)
(***************************************************************************)
EXTENDS Integers, Sequences, FiniteSets, TLC

(***************************************************************************)
(* Bounds of the model.                                                    *)
(***************************************************************************)
\* The Lua registry's reference array grows to at most MaxRefs slots.
MaxRefs == 4
\* At most MaxTables environment tables are allocated.
MaxTables == 3
\* Threads that run scripts against the one VM state.
NThreads == 2
\* The connection list grows to at most MaxConns records.
MaxConns == 2
\* Fire is called with at most MaxArgs arguments.
MaxArgs == 2
\* Lua states created over the life of the process.
MaxStates == 2
\* Heap addresses the allocator hands out for script closures.
NAddrs == 2
\* The Lua registry table holds at most MaxRegistry values.
MaxRegistry == 3

\* static std::atomic<int> g_default_identity{2}
g_default_identity == 2
\* The highest identity lua_setthreadidentity accepts.
MaxIdentity == 8
\* The number in the text printidentity writes.
PrintedIdentity == 2

(***************************************************************************)
(* Script values.                                                          *)
(***************************************************************************)
\* Script (Lua) closures and native (C) closures; "tbl" is a value that is
\* not a function.
LClosures == {"f", "g"}
CClosures == {"print"}
Functions == LClosures \cup CClosures
Values == Functions \cup {"tbl"}

\* What each closure runs when it is invoked: f returns 1, g returns 2.
InitBehaviour == [c \in Functions |->
                    CASE c = "f" -> "ret1"
                      [] c = "g" -> "ret2"
                      [] OTHER   -> "cprint"]

None == "none"

VARIABLES
  behaviour,        \* closure -> the code an invocation of it executes
  g_hook_registry,  \* set of [ptr, L, original_ref, hook_ref]: the unordered_map
  refs,             \* the Lua registry's reference array and its free list
  lastHook,         \* history: closure -> last successful hook/restore call on it
  hcall,            \* the last call into the hook engine and what it did
  crashed,          \* the process has aborted
  globals,          \* the host global table (LUA_GLOBALSINDEX): name -> value
  tables,           \* heap of environment tables, by table id
  genv,             \* registry field _XORON_GENV: 0 (nil) or a table id
  scriptEnvs,       \* registry field _XORON_SCRIPT_ENVS: nil, or a table {<<key, id>>}
  firstEnv,         \* history: key -> table the first getsenv(key) returned, or 0
  written,          \* history: key -> name -> value last written through firstEnv[key]
  ecall,            \* the last call into the environment manager
  moduleEnvs,       \* registry field _XORON_MODULE_ENVS: nil, or a table {<<key, id>>}
  firstMenv,        \* history: key -> table the first getmenv(key) returned, or 0
  writtenM,         \* history: key -> name -> value last written through firstMenv[key]
  rField,           \* threads: registry field _XORON_SCRIPT_ENVS, 0 (nil) or a cache id
  rCaches,          \* threads: the cache tables created so far, each {<<key, id>>}
  rBuilt,           \* threads: key -> number of environment tables constructed for it
  rThreads,         \* threads: thread -> its position in lua_getsenv and its locals
  metatables,       \* object -> its metatable: [has, readonly, entries]
  mcall,            \* the last call of hookmetamethod or setreadonly
  mcrashed,         \* the process has aborted inside hookmetamethod
  g_connections,    \* the vector of [callback_ref, enabled]
  g_connection_mutex, \* 0 when free, otherwise the thread that holds it
  cThreads,         \* thread -> its position inside a connection method
  ccall,            \* the last completed step of a connection method
  issued,           \* history: the indices register returned, in order
  disconnected,     \* history: the valid indices disconnect was called with
  g_thread_identities, \* the unordered_map: a function on the threads that set one
  lastSet,          \* history: thread -> level of its last successful set, or -1
  icall,            \* the last call of getthreadidentity / setthreadidentity
  g_hook_mutex,     \* hook threads: 0 when free, otherwise the thread that holds it
  hThreads,         \* hook threads: thread -> position in hookfunction/restorefunction
  serial,           \* history: registry and references had the calls run one by one
  released_twice,   \* history: lua_unref was applied to a reference not held
  overlapped,       \* history: a call took the mutex while another call was pending
  vm,               \* xoron_vm: L is 0 (no state) or the number of the open state
  nstates,          \* the number of Lua states created so far
  heap,             \* script closure -> its address in the open state
  hookedIn,         \* history: the closures of the open state hookfunction was given
  vcall,            \* the last call made through the VM
  foreign_unref,    \* restorefunction released references another state took
  registry,         \* the values of the Lua registry table, in iteration order
  gcall             \* the last call of getgc or filtergc

hookVars == <<behaviour, g_hook_registry, refs, lastHook, hcall, crashed>>
envVars  == <<globals, tables, genv, scriptEnvs, firstEnv, written, ecall>>
menvVars == <<moduleEnvs, firstMenv, writtenM>>
raceVars == <<rField, rCaches, rBuilt, rThreads>>
metaVars == <<metatables, mcall, mcrashed>>
connVars == <<g_connections, g_connection_mutex, cThreads, ccall, issued,
              disconnected>>
hraceVars == <<g_hook_mutex, hThreads, serial, released_twice, overlapped>>
identVars == <<g_thread_identities, lastSet, icall>>
vmVars   == <<vm, nstates, heap, hookedIn, vcall, foreign_unref>>
gcVars   == <<registry, gcall>>
vars     == <<hookVars, envVars, menvVars, raceVars, metaVars, connVars,
              hraceVars, identVars, vmVars, gcVars>>

\* What the actions of one subsystem leave alone.
nonHookVars == <<envVars, menvVars, raceVars, metaVars, connVars, hraceVars,
                 identVars, vmVars, gcVars>>
nonEnvVars  == <<hookVars, menvVars, raceVars, metaVars, connVars, hraceVars,
                 identVars, vmVars, gcVars>>
nonMenvVars == <<hookVars, genv, scriptEnvs, firstEnv, written, raceVars,
                 metaVars, connVars, hraceVars,
                 identVars, vmVars, gcVars>>
nonHraceVars == <<behaviour, lastHook, hcall, crashed, envVars, menvVars,
                  raceVars, metaVars, connVars,
                 identVars, vmVars, gcVars>>
nonRaceVars == <<hookVars, envVars, menvVars, metaVars, connVars, hraceVars,
                 identVars, vmVars, gcVars>>
nonMetaVars == <<hookVars, envVars, menvVars, raceVars, connVars, hraceVars,
                 identVars, vmVars, gcVars>>
nonConnVars == <<hookVars, envVars, menvVars, raceVars, metaVars, hraceVars,
                 identVars, vmVars, gcVars>>

nonIdentVars == <<hookVars, envVars, menvVars, raceVars, metaVars, connVars,
                  hraceVars, vmVars, gcVars>>

nonVmVars == <<behaviour, lastHook, hcall, crashed, envVars, menvVars,
               raceVars, metaVars, connVars, hraceVars, identVars, gcVars>>

nonGcVars == <<hookVars, envVars, menvVars, raceVars, metaVars, connVars,
               hraceVars, identVars, vmVars>>

(***************************************************************************)
(* Host runtime primitives used by the hook engine.                        *)
(***************************************************************************)
lua_type(v) == IF v \in Functions THEN "function" ELSE "table"

lua_iscfunction(v) == v \in CClosures

\* The address of a collectable object: distinct objects, distinct addresses.
lua_topointer(v) == <<"addr", v>>

\* Invoking a closure runs the code its own object holds; calling a value
\* that is not a function raises.
Invoke(c) == IF c \in Functions THEN behaviour[c] ELSE "error"

\* lua_ref: take the head of the free list, or else grow the array by one.
\* Returns the new reference state and the reference.
lua_ref(rs, v) ==
  IF rs.free # 0
    THEN [rs  |-> [slots |-> [rs.slots EXCEPT ![rs.free] = [held |-> TRUE, val |-> v]],
                   free  |-> rs.slots[rs.free].next],
          ref |-> rs.free]
    ELSE [rs  |-> [slots |-> Append(rs.slots, [held |-> TRUE, val |-> v]),
                   free  |-> 0],
          ref |-> Len(rs.slots) + 1]

\* lua_unref: the slot joins the head of the free list.
lua_unref(rs, ref) ==
  [slots |-> [rs.slots EXCEPT ![ref] = [held |-> FALSE, next |-> rs.free]],
   free  |-> ref]

\* The references currently held in the Lua registry.
HeldRefs == {i \in 1..Len(refs.slots) : refs.slots[i].held}

RECURSIVE FreeLen(_, _)
FreeLen(rs, head) == IF head = 0 THEN 0 ELSE 1 + FreeLen(rs, rs.slots[head].next)

\* The number of references that can still be taken within MaxRefs.
RefRoom == FreeLen(refs, refs.free) + (MaxRefs - Len(refs.slots))

(***************************************************************************)
(* g_hook_registry: std::unordered_map<void*, HookEntry>.                  *)
(***************************************************************************)
MapFind(m, ptr) == {e \in m : e.ptr = ptr}

\* Mutant: insert(), which keeps an entry that is already there.
MapAssign_InsertOnly(m, ptr, entry) ==
  IF MapFind(m, ptr) # {} THEN m
  ELSE m \cup {[ptr |-> ptr, L |-> entry.L,
                original_ref |-> entry.original_ref,
                hook_ref |-> entry.hook_ref]}

\* Mutant: a multimap-like insertion that never replaces.
MapAssign_Multi(m, ptr, entry) ==
  m \cup {[ptr |-> ptr, L |-> entry.L,
           original_ref |-> entry.original_ref,
           hook_ref |-> entry.hook_ref]}

\* m[ptr] = entry
MapAssign(m, ptr, entry) ==
  {e \in m : e.ptr # ptr} \cup {[ptr |-> ptr, L |-> entry.L,
                                 original_ref |-> entry.original_ref,
                                 hook_ref |-> entry.hook_ref]}

\* m.erase(it)
MapErase(m, ptr) == {e \in m : e.ptr # ptr}

HasRecord(c) == MapFind(g_hook_registry, lua_topointer(c)) # {}

NoEntry == [ptr |-> None, L |-> None, original_ref |-> 0, hook_ref |-> 0]

EntryOf(m, ptr) == IF MapFind(m, ptr) = {} THEN NoEntry
                   ELSE CHOOSE e \in MapFind(m, ptr) : TRUE

\* The function a held reference refers to (lua_rawgeti on the registry).
RefVal(rs, ref) == IF ref \in 1..Len(rs.slots) /\ rs.slots[ref].held
                     THEN rs.slots[ref].val ELSE None

\* What a call into the hook engine was and did: its arguments, how it ended,
\* the behaviour of the clone it returned (retBeh) or its boolean result
\* (retBool), the behaviour target and hook had when it was made (preBeh,
\* hookBeh), whether a record for target existed (had), that record (prev) and
\* the function its hook_ref referred to (prevHook), and the references the
\* call took and released, in order.
NoCall == [op |-> None, target |-> None, hook |-> None, status |-> None,
           retBeh |-> None, retBool |-> FALSE, preBeh |-> None, hookBeh |-> None,
           had |-> FALSE, prev |-> NoEntry, prevHook |-> None,
           taken |-> <<>>, unref |-> <<>>]

(***************************************************************************)
(* hookfunction(target, hook)                                              *)
(***************************************************************************)
\* luaL_checktype on both arguments raises and nothing else happens.
HookTypeError(target, hook) ==
  /\ lua_type(target) # "function" \/ lua_type(hook) # "function"
  /\ hcall' = [NoCall EXCEPT !.op = "hookfunction", !.target = target,
                             !.hook = hook, !.status = "error"]
  /\ UNCHANGED <<behaviour, g_hook_registry, refs, lastHook, crashed>>

\* The body after the type checks: clone, two lua_ref, registry[ptr] = entry.
HookInstall(target, hook, cloneBeh) ==
  LET r1    == lua_ref(refs, target)
      r2    == lua_ref(r1.rs, hook)
      ptr   == lua_topointer(target)
      entry == [L |-> "L", original_ref |-> r1.ref, hook_ref |-> r2.ref]
  IN  /\ refs' = r2.rs
      /\ g_hook_registry' = MapAssign(g_hook_registry, ptr, entry)
      /\ lastHook' = [lastHook EXCEPT ![target] = "hook"]
      /\ hcall' = [NoCall EXCEPT !.op = "hookfunction", !.target = target,
                                 !.hook = hook, !.status = "ok",
                                 !.retBeh = cloneBeh,
                                 !.preBeh = Invoke(target),
                                 !.hookBeh = Invoke(hook),
                                 !.had = HasRecord(target),
                                 !.prev = EntryOf(g_hook_registry, ptr),
                                 !.prevHook = RefVal(refs,
                                     EntryOf(g_hook_registry, ptr).hook_ref),
                                 !.taken = <<r1.ref, r2.ref>>]
      /\ UNCHANGED <<behaviour, crashed>>

\* lua_clonefunction of a script closure: a new closure running the code the
\* target runs now.
HookScript(target, hook) ==
  /\ lua_type(target) = "function" /\ lua_type(hook) = "function"
  /\ ~lua_iscfunction(target)
  /\ RefRoom >= 2
  /\ HookInstall(target, hook, Invoke(target))

\* lua_clonefunction of a native closure is outside its contract
\* (api_check(isLfunction)): the process aborts, or the call goes on with a
\* clone of unspecified behaviour.
HookNative(target, hook) ==
  /\ lua_type(target) = "function" /\ lua_type(hook) = "function"
  /\ lua_iscfunction(target)
  /\ RefRoom >= 2
  /\ \/ /\ crashed' = TRUE
        /\ hcall' = [NoCall EXCEPT !.op = "hookfunction", !.target = target,
                                   !.hook = hook, !.status = "abort"]
        /\ UNCHANGED <<behaviour, g_hook_registry, refs, lastHook>>
     \/ HookInstall(target, hook, "unspecified")

\* Mutant: the type check of the second argument is missing.
lua_hookfunction_NoHookCheck(target, hook) ==
  \/ /\ lua_type(target) # "function"
     /\ HookTypeError(target, hook)
  \/ /\ lua_type(target) = "function"
     /\ ~lua_iscfunction(target)
     /\ RefRoom >= 2
     /\ HookInstall(target, hook, Invoke(target))

lua_hookfunction(target, hook) ==
  \/ HookTypeError(target, hook)
  \/ HookScript(target, hook)
  \/ HookNative(target, hook)

(***************************************************************************)
(* restorefunction(func)                                                   *)
(***************************************************************************)
RestoreTypeError(target) ==
  /\ lua_type(target) # "function"
  /\ hcall' = [NoCall EXCEPT !.op = "restorefunction", !.target = target,
                             !.status = "error"]
  /\ UNCHANGED <<behaviour, g_hook_registry, refs, lastHook, crashed>>

\* Mutant: the references are released but the entry is not erased.
RestoreFound_NoErase(target) ==
  LET ptr == lua_topointer(target)
      e   == EntryOf(g_hook_registry, ptr)
  IN  /\ lua_type(target) = "function"
      /\ MapFind(g_hook_registry, ptr) # {}
      /\ refs' = lua_unref(lua_unref(refs, e.original_ref), e.hook_ref)
      /\ lastHook' = [lastHook EXCEPT ![target] = "restore"]
      /\ hcall' = [NoCall EXCEPT !.op = "restorefunction", !.target = target,
                                 !.status = "ok", !.had = TRUE, !.prev = e,
                                 !.unref = <<e.original_ref, e.hook_ref>>]
      /\ UNCHANGED <<behaviour, g_hook_registry, crashed>>

\* it != end(): unref original_ref, unref hook_ref, erase.
RestoreFound(target) ==
  LET ptr == lua_topointer(target)
      e   == EntryOf(g_hook_registry, ptr)
  IN  /\ lua_type(target) = "function"
      /\ MapFind(g_hook_registry, ptr) # {}
      /\ refs' = lua_unref(lua_unref(refs, e.original_ref), e.hook_ref)
      /\ g_hook_registry' = MapErase(g_hook_registry, ptr)
      /\ lastHook' = [lastHook EXCEPT ![target] = "restore"]
      /\ hcall' = [NoCall EXCEPT !.op = "restorefunction", !.target = target,
                                 !.status = "ok", !.had = TRUE, !.prev = e,
                                 !.unref = <<e.original_ref, e.hook_ref>>]
      /\ UNCHANGED <<behaviour, crashed>>

\* Mutant: restoring a function that is not hooked raises.
RestoreAbsent_Raises(target) ==
  /\ lua_type(target) = "function"
  /\ MapFind(g_hook_registry, lua_topointer(target)) = {}
  /\ hcall' = [NoCall EXCEPT !.op = "restorefunction", !.target = target,
                             !.status = "error"]
  /\ UNCHANGED <<behaviour, g_hook_registry, refs, lastHook, crashed>>

\* it == end(): nothing to do, return 0.
RestoreAbsent(target) ==
  /\ lua_type(target) = "function"
  /\ MapFind(g_hook_registry, lua_topointer(target)) = {}
  /\ lastHook' = [lastHook EXCEPT ![target] = "restore"]
  /\ hcall' = [NoCall EXCEPT !.op = "restorefunction", !.target = target,
                             !.status = "ok"]
  /\ UNCHANGED <<behaviour, g_hook_registry, refs, crashed>>

lua_restorefunction(target) ==
  \/ RestoreTypeError(target)
  \/ RestoreFound(target)
  \/ RestoreAbsent(target)

(***************************************************************************)
(* isexecutorclosure(func)                                                 *)
(***************************************************************************)
\* Mutant: the hook registry is not consulted.
IsExecutorClosureResult_NoRegistry(c, hasFrame) ==
  IF lua_iscfunction(c) /\ hasFrame THEN TRUE
  ELSE lua_iscfunction(c)

\* hasFrame: lua_getinfo(L, 1, "n", &ar) finds a frame at level 1.
IsExecutorClosureResult(c, hasFrame) ==
  IF lua_iscfunction(c) /\ hasFrame THEN TRUE
  ELSE IF MapFind(g_hook_registry, lua_topointer(c)) # {} THEN TRUE
  ELSE lua_iscfunction(c)

lua_isexecutorclosure(c, hasFrame) ==
  /\ hcall' = IF lua_type(c) # "function"
                THEN [NoCall EXCEPT !.op = "isexecutorclosure", !.target = c,
                                    !.status = "error"]
                ELSE [NoCall EXCEPT !.op = "isexecutorclosure", !.target = c,
                                    !.status = "ok",
                                    !.retBool = IsExecutorClosureResult(c, hasFrame)]
  /\ UNCHANGED <<behaviour, g_hook_registry, refs, lastHook, crashed>>

(***************************************************************************)
(* Environment tables.                                                     *)
(***************************************************************************)
\* The keys scripts pass to getsenv: two objects, nil, and no argument.
Keys == {"k1", "k2"}
NilKey == "nil"
NoArg == "noarg"
KeyArgs == Keys \cup {NilKey, NoArg}
Names == {"x"}
Vals == {"a", "b"}
Nil == "nil"

\* Mutant: the metatable with __index = _G is not installed.
NewTable_NoFallback(fallback) ==
  [fallback |-> None, data |-> [n \in Names |-> Nil]]

\* lua_newtable, and the metatable {__index = _G} when there is a fallback.
NewTable(fallback) == [fallback |-> fallback, data |-> [n \in Names |-> Nil]]

\* lua_rawget / lua_rawset on a cache table kept as a set of <<key, id>>.
RawGet(m, k) == IF \E p \in m : p[1] = k
                  THEN (CHOOSE p \in m : p[1] = k)[2] ELSE 0

RawSet(m, k, v) == {p \in m : p[1] # k} \cup {<<k, v>>}

NoEnvCall == [op |-> None, key |-> None, status |-> None, ret |-> 0,
              name |-> None, val |-> None]

\* Indexing an environment table: its own entry, or on a miss the __index
\* table of its metatable, which is the host global table.
EnvReadIn(tabs, glob, t, n) ==
  IF tabs[t].data[n] # Nil THEN tabs[t].data[n]
  ELSE IF tabs[t].fallback = "_G" THEN glob[n]
  ELSE Nil

EnvRead(t, n) == EnvReadIn(tables, globals, t, n)

\* The histories are kept per getsenv key and for the global environment.
GenvKey == "genv"
EnvKeys == Keys \cup {GenvKey}

\* Mutant: the new environment is returned but never stored in the cache.
SenvLookup_NoStore(envs, tabs, key) ==
  IF RawGet(envs, key) # 0
    THEN [envs |-> envs, tabs |-> tabs, status |-> "ok", ret |-> RawGet(envs, key)]
  ELSE [envs |-> envs, tabs |-> Append(tabs, NewTable("_G")),
        status |-> "ok", ret |-> Len(tabs) + 1]

\* Mutant: the cache is looked up and filled under one fixed key, so every
\* script shares one environment.
SenvLookup_OneTable(envs, tabs, key) ==
  IF key = NilKey
    THEN [envs |-> envs, tabs |-> tabs, status |-> "error", ret |-> 0]
  ELSE IF RawGet(envs, "shared") # 0
    THEN [envs |-> envs, tabs |-> tabs, status |-> "ok",
          ret |-> RawGet(envs, "shared")]
  ELSE [envs |-> RawSet(envs, "shared", Len(tabs) + 1),
        tabs |-> Append(tabs, NewTable("_G")),
        status |-> "ok", ret |-> Len(tabs) + 1]

\* The lookup in the cache table and, on a miss, the creation of the
\* environment and its rawset under the key; rawset raises on a nil key.
SenvLookup(envs, tabs, key) ==
  IF RawGet(envs, key) # 0
    THEN [envs |-> envs, tabs |-> tabs, status |-> "ok", ret |-> RawGet(envs, key)]
  ELSE IF key = NilKey
    THEN [envs |-> envs, tabs |-> tabs, status |-> "error", ret |-> 0]
  ELSE [envs |-> RawSet(envs, key, Len(tabs) + 1),
        tabs |-> Append(tabs, NewTable("_G")),
        status |-> "ok", ret |-> Len(tabs) + 1]

\* getsenv(script): luaL_checkany raises without an argument; otherwise the
\* cache table is fetched from the registry, or created and stored there
\* when the field is nil, and the key is looked up in it.
lua_getsenv(key) ==
  IF key = NoArg
    THEN /\ ecall' = [NoEnvCall EXCEPT !.op = "getsenv", !.key = key,
                                       !.status = "error"]
         /\ UNCHANGED <<globals, tables, genv, scriptEnvs, firstEnv, written>>
  ELSE LET r == SenvLookup(scriptEnvs.map, tables, key)
       IN  /\ Len(r.tabs) <= MaxTables
           /\ scriptEnvs' = [isnil |-> FALSE, map |-> r.envs]
           /\ tables' = r.tabs
           /\ firstEnv' = IF r.status = "ok" /\ firstEnv[key] = 0
                            THEN [firstEnv EXCEPT ![key] = r.ret] ELSE firstEnv
           /\ ecall' = [NoEnvCall EXCEPT !.op = "getsenv", !.key = key,
                                         !.status = r.status, !.ret = r.ret]
           /\ UNCHANGED <<globals, genv, written>>

\* Mutant: the new table is returned but not stored under _XORON_GENV.
GenvLookup_NoStore(g, tabs) ==
  IF g = 0
    THEN [genv |-> 0, tabs |-> Append(tabs, NewTable("_G")), ret |-> Len(tabs) + 1]
  ELSE [genv |-> g, tabs |-> tabs, ret |-> g]

\* push_global_env: the table under _XORON_GENV, created on the first call
\* with the metatable {__index = _G} and stored in the registry.
GenvLookup(g, tabs) ==
  IF g = 0
    THEN [genv |-> Len(tabs) + 1, tabs |-> Append(tabs, NewTable("_G")),
          ret |-> Len(tabs) + 1]
  ELSE [genv |-> g, tabs |-> tabs, ret |-> g]

\* getgenv()
lua_getgenv ==
  LET r == GenvLookup(genv, tables)
  IN  /\ Len(r.tabs) <= MaxTables
      /\ tables' = r.tabs
      /\ genv' = r.genv
      /\ firstEnv' = IF firstEnv[GenvKey] = 0
                       THEN [firstEnv EXCEPT ![GenvKey] = r.ret] ELSE firstEnv
      /\ ecall' = [NoEnvCall EXCEPT !.op = "getgenv", !.key = GenvKey,
                                    !.status = "ok", !.ret = r.ret]
      /\ UNCHANGED <<globals, scriptEnvs, written>>

\* A script assigns a field of an environment table whose handle it holds.
TableWrite(t, n, v) ==
  tables' = [tables EXCEPT ![t].data[n] = v]

\* env = getsenv(k) earlier; env[n] = v now.
SenvWrite(k, n, v) ==
  /\ firstEnv[k] # 0
  /\ TableWrite(firstEnv[k], n, v)
  /\ written' = [written EXCEPT ![k][n] = v]
  /\ ecall' = [NoEnvCall EXCEPT !.op = "write", !.key = k, !.status = "ok",
                                !.ret = firstEnv[k], !.name = n, !.val = v]
  /\ UNCHANGED <<globals, genv, scriptEnvs, firstEnv>>

\* env = getgenv() earlier; env[n] = v now.
GenvWrite(n, v) ==
  /\ firstEnv[GenvKey] # 0
  /\ TableWrite(firstEnv[GenvKey], n, v)
  /\ written' = [written EXCEPT ![GenvKey][n] = v]
  /\ ecall' = [NoEnvCall EXCEPT !.op = "write", !.key = GenvKey, !.status = "ok",
                                !.ret = firstEnv[GenvKey], !.name = n, !.val = v]
  /\ UNCHANGED <<globals, genv, scriptEnvs, firstEnv>>

\* A script reads env[n] through the handle getsenv(k) or getgenv() gave it.
EnvReadCall(k, n) ==
  /\ firstEnv[k] # 0
  /\ ecall' = [NoEnvCall EXCEPT !.op = "read", !.key = k, !.status = "ok",
                                !.ret = firstEnv[k], !.name = n,
                                !.val = EnvRead(firstEnv[k], n)]
  /\ UNCHANGED <<globals, tables, genv, scriptEnvs, firstEnv, written>>

\* The host (or a script through _G) assigns a global.
SetGlobal(n, v) ==
  /\ globals' = [globals EXCEPT ![n] = v]
  /\ ecall' = [NoEnvCall EXCEPT !.op = "setglobal", !.status = "ok",
                                !.name = n, !.val = v]
  /\ UNCHANGED <<tables, genv, scriptEnvs, firstEnv, written>>

(***************************************************************************)
(* getmenv: module environments.                                           *)
(***************************************************************************)
\* Keys by the type tests of lua_getmenv: functions, userdata, and the rest
\* (a table, a string, nil).
FunctionKeys == {"fn"}
UserdataKeys == {"u1", "u2"}
OtherKeys    == {"t1", "s1", NilKey}
MenvKeys     == FunctionKeys \cup UserdataKeys \cup OtherKeys
MenvArgs     == MenvKeys \cup {NoArg}

\* The environment of a function of the script is the host global table,
\* which is not one of the tables of the heap.
GlobalsId == MaxTables + 1

\* Mutant: the userdata branch does not rawset the new table into the cache.
MenvLookup_NoStore(envs, tabs, key) ==
  IF key \in FunctionKeys
    THEN [envs |-> envs, tabs |-> tabs, ret |-> GlobalsId]
  ELSE IF key \in UserdataKeys /\ RawGet(envs.map, key) # 0
    THEN [envs |-> [envs EXCEPT !.isnil = FALSE], tabs |-> tabs,
          ret |-> RawGet(envs.map, key)]
  ELSE IF key \in UserdataKeys
    THEN [envs |-> [envs EXCEPT !.isnil = FALSE],
          tabs |-> Append(tabs, NewTable(None)), ret |-> Len(tabs) + 1]
  ELSE [envs |-> envs, tabs |-> Append(tabs, NewTable(None)),
        ret |-> Len(tabs) + 1]

\* The three branches of lua_getmenv: lua_getfenv for a function; the cache
\* _XORON_MODULE_ENVS (created when nil, rawget, and on a miss newtable and
\* rawset) for a userdata; a plain lua_newtable for every other value.
MenvLookup(envs, tabs, key) ==
  IF key \in FunctionKeys
    THEN [envs |-> envs, tabs |-> tabs, ret |-> GlobalsId]
  ELSE IF key \in UserdataKeys /\ RawGet(envs.map, key) # 0
    THEN [envs |-> [envs EXCEPT !.isnil = FALSE], tabs |-> tabs,
          ret |-> RawGet(envs.map, key)]
  ELSE IF key \in UserdataKeys
    THEN [envs |-> [isnil |-> FALSE, map |-> RawSet(envs.map, key, Len(tabs) + 1)],
          tabs |-> Append(tabs, NewTable(None)), ret |-> Len(tabs) + 1]
  ELSE [envs |-> envs, tabs |-> Append(tabs, NewTable(None)),
        ret |-> Len(tabs) + 1]

\* getmenv(module): luaL_checkany raises without an argument.
lua_getmenv(key) ==
  IF key = NoArg
    THEN /\ ecall' = [NoEnvCall EXCEPT !.op = "getmenv", !.key = key,
                                       !.status = "error"]
         /\ UNCHANGED <<globals, tables, menvVars>>
  ELSE LET r == MenvLookup(moduleEnvs, tables, key)
       IN  /\ Len(r.tabs) <= MaxTables
           /\ moduleEnvs' = r.envs
           /\ tables' = r.tabs
           /\ firstMenv' = IF firstMenv[key] = 0
                             THEN [firstMenv EXCEPT ![key] = r.ret] ELSE firstMenv
           /\ ecall' = [NoEnvCall EXCEPT !.op = "getmenv", !.key = key,
                                         !.status = "ok", !.ret = r.ret]
           /\ UNCHANGED <<globals, writtenM>>

\* Indexing the table getmenv returned: the host global table for a
\* function's environment, otherwise a table of the heap (without metatable).
MenvRead(h, n) == IF h = GlobalsId THEN globals[n] ELSE EnvRead(h, n)

\* env = getmenv(k) earlier; env[n] = v now.
MenvWrite(k, n, v) ==
  /\ firstMenv[k] # 0
  /\ IF firstMenv[k] = GlobalsId
       THEN globals' = [globals EXCEPT ![n] = v] /\ UNCHANGED tables
       ELSE TableWrite(firstMenv[k], n, v) /\ UNCHANGED globals
  /\ writtenM' = [writtenM EXCEPT ![k][n] = v]
  /\ ecall' = [NoEnvCall EXCEPT !.op = "mwrite", !.key = k, !.status = "ok",
                                !.ret = firstMenv[k], !.name = n, !.val = v]
  /\ UNCHANGED <<moduleEnvs, firstMenv>>

(***************************************************************************)
(* lua_getsenv called from several threads on one VM state.  The function  *)
(* takes no lock, so its registry accesses interleave call by call.        *)
(***************************************************************************)
Threads == 1..NThreads

IdleThread == [pc |-> "idle", key |-> None, cache |-> 0, ret |-> 0]

\* Number of environment tables constructed so far, over all keys.
RECURSIVE SumBuilt(_, _)
SumBuilt(f, ks) ==
  IF ks = {} THEN 0
  ELSE LET k == CHOOSE x \in ks : TRUE IN f[k] + SumBuilt(f, ks \ {k})

\* A thread enters getsenv(k).
SenvCall(t, k) ==
  /\ rThreads[t].pc = "idle"
  /\ rThreads' = [rThreads EXCEPT ![t].pc = "getfield", ![t].key = k]
  /\ UNCHANGED <<rField, rCaches, rBuilt>>

\* lua_getfield(L, LUA_REGISTRYINDEX, "_XORON_SCRIPT_ENVS") and the nil test.
SenvGetField(t) ==
  /\ rThreads[t].pc = "getfield"
  /\ rThreads' = [rThreads EXCEPT ![t].cache = rField,
                                  ![t].pc = IF rField = 0 THEN "newcache"
                                            ELSE "rawget"]
  /\ UNCHANGED <<rField, rCaches, rBuilt>>

\* lua_newtable and lua_setfield of the cache table after the field was nil.
SenvNewCache(t) ==
  /\ rThreads[t].pc = "newcache"
  /\ rCaches' = Append(rCaches, {})
  /\ rField' = Len(rCaches) + 1
  /\ rThreads' = [rThreads EXCEPT ![t].cache = Len(rCaches) + 1,
                                  ![t].pc = "rawget"]
  /\ UNCHANGED rBuilt

\* lua_rawget of the key in the cache table the thread holds; a hit returns.
SenvRawGet(t) ==
  /\ rThreads[t].pc = "rawget"
  /\ LET found == RawGet(rCaches[rThreads[t].cache], rThreads[t].key)
     IN  rThreads' = [rThreads EXCEPT ![t].ret = found,
                                     ![t].pc = IF found = 0 THEN "newenv"
                                               ELSE "done"]
  /\ UNCHANGED <<rField, rCaches, rBuilt>>

\* After a miss: the new environment table and its lua_rawset under the key.
SenvNewEnv(t) ==
  /\ rThreads[t].pc = "newenv"
  /\ LET id == SumBuilt(rBuilt, Keys) + 1
         c  == rThreads[t].cache
         k  == rThreads[t].key
     IN  /\ rCaches' = [rCaches EXCEPT ![c] = RawSet(rCaches[c], k, id)]
         /\ rBuilt' = [rBuilt EXCEPT ![k] = rBuilt[k] + 1]
         /\ rThreads' = [rThreads EXCEPT ![t].ret = id, ![t].pc = "done"]
  /\ UNCHANGED rField

(***************************************************************************)
(* hookmetamethod.                                                         *)
(***************************************************************************)
\* o1 has a metatable, o2 has none.
Objects == {"o1", "o2"}
MNames  == {"__index", "__namecall", "__len"}

NoMetatable == [has |-> FALSE, readonly |-> FALSE,
                entries |-> [n \in MNames |-> Nil]]

\* The metatable of o1: __index is a script function, __namecall a native
\* one, __len is absent.
InitMetatable == [has |-> TRUE, readonly |-> TRUE,
                  entries |-> [n \in MNames |->
                                 CASE n = "__index"    -> "f"
                                   [] n = "__namecall" -> "print"
                                   [] OTHER            -> Nil]]

NoMetaCall == [op |-> None, obj |-> None, name |-> None, hook |-> None,
               status |-> None, pre |-> NoMetatable, retBeh |-> None]

\* lua_setfield on the metatable: refused on a readonly table.
MtSetField(mt, name, h) ==
  IF mt.readonly THEN [mt |-> mt, ok |-> FALSE]
  ELSE [mt |-> [mt EXCEPT !.entries[name] = h], ok |-> TRUE]

\* Mutant: the readonly state is lifted but not put back.
MtWrite_NoRestore(mt, name, h) ==
  MtSetField([mt EXCEPT !.readonly = FALSE], name, h)

\* was_readonly = lua_getreadonly; lift it when set; lua_setfield; put it
\* back when it was set.
MtWrite(mt, name, h) ==
  LET was_readonly == mt.readonly
      lifted == IF was_readonly THEN [mt EXCEPT !.readonly = FALSE] ELSE mt
      set    == MtSetField(lifted, name, h)
  IN  [mt |-> IF was_readonly THEN [set.mt EXCEPT !.readonly = TRUE] ELSE set.mt,
       ok |-> set.ok]

\* luaL_checktype(3, function), "Object has no metatable" and
\* "Metamethod ... does not exist": a Lua error, nothing is written.
MetaError(o, name, h) ==
  /\ \/ lua_type(h) # "function"
     \/ ~metatables[o].has
     \/ metatables[o].entries[name] = Nil
  /\ mcall' = [NoMetaCall EXCEPT !.op = "hookmetamethod", !.obj = o,
                                 !.name = name, !.hook = h, !.status = "error",
                                 !.pre = metatables[o]]
  /\ UNCHANGED <<metatables, mcrashed>>

\* The clone is taken, the entry is overwritten under the lifted readonly
\* state, and the clone is returned.
MetaInstall(o, name, h, cloneBeh) ==
  LET w == MtWrite(metatables[o], name, h)
  IN  /\ metatables' = [metatables EXCEPT ![o] = w.mt]
      /\ mcall' = [NoMetaCall EXCEPT !.op = "hookmetamethod", !.obj = o,
                                     !.name = name, !.hook = h,
                                     !.status = IF w.ok THEN "ok" ELSE "error",
                                     !.pre = metatables[o],
                                     !.retBeh = IF w.ok THEN cloneBeh ELSE None]
      /\ UNCHANGED mcrashed

\* The entry is a script function: lua_clonefunction gives a closure that
\* runs the same code.
MetaScript(o, name, h) ==
  /\ lua_type(h) = "function"
  /\ metatables[o].has
  /\ metatables[o].entries[name] \in LClosures
  /\ MetaInstall(o, name, h, Invoke(metatables[o].entries[name]))

\* The entry is a native function: lua_clonefunction is outside its contract
\* (api_check(isLfunction)); the process aborts, or the call goes on with a
\* clone of unspecified behaviour.
MetaNative(o, name, h) ==
  /\ lua_type(h) = "function"
  /\ metatables[o].has
  /\ metatables[o].entries[name] \in CClosures
  /\ \/ /\ mcrashed' = TRUE
        /\ mcall' = [NoMetaCall EXCEPT !.op = "hookmetamethod", !.obj = o,
                                       !.name = name, !.hook = h,
                                       !.status = "abort",
                                       !.pre = metatables[o]]
        /\ UNCHANGED metatables
     \/ MetaInstall(o, name, h, "unspecified")

\* Mutant: the test for a missing metamethod is left out.
lua_hookmetamethod_NoMethodCheck(o, name, h) ==
  \/ /\ lua_type(h) # "function" \/ ~metatables[o].has
     /\ MetaError(o, name, h)
  \/ /\ lua_type(h) = "function"
     /\ metatables[o].has
     /\ metatables[o].entries[name] \notin CClosures
     /\ MetaInstall(o, name, h,
                    IF metatables[o].entries[name] = Nil THEN "unspecified"
                    ELSE Invoke(metatables[o].entries[name]))
  \/ MetaNative(o, name, h)

lua_hookmetamethod(o, name, h) ==
  \/ MetaError(o, name, h)
  \/ MetaScript(o, name, h)
  \/ MetaNative(o, name, h)

\* setreadonly(getrawmetatable(o), b)
lua_setreadonly_func(o, b) ==
  /\ metatables[o].has
  /\ metatables' = [metatables EXCEPT ![o].readonly = b]
  /\ mcall' = [NoMetaCall EXCEPT !.op = "setreadonly", !.obj = o,
                                 !.status = "ok", !.pre = metatables[o]]
  /\ UNCHANGED mcrashed

(***************************************************************************)
(* The connection shim: g_connections under g_connection_mutex.            *)
(***************************************************************************)
\* callback_ref of a disconnected record.
LUA_NOREF == "noref"

\* The ids a script can put into a connection object's _id field; the
\* vector is indexed from 0.
ConnIds == (0 - 1)..MaxConns

\* The argument lists a script passes to Fire: n different values, here
\* the numbers 1..n in this order.
ArgLists == {[i \in 1..n |-> i] : n \in 0..MaxArgs}

ValidIn(conns, id) == id >= 0 /\ id < Len(conns)

ValidId(id) == ValidIn(g_connections, id)

IdleConn == [pc |-> "idle", id |-> 0, cb |-> None, args |-> <<>>,
             inner |-> None]

\* What a connection method was called with and did: the vector before the
\* call (pre), the callback given to register (cb), the arguments given to
\* Fire (args), the invocations Fire made (calls), whether the callback
\* raised (fault), whether that was written to an error output (reported),
\* and the number of lua_unref calls Disconnect made (released).
NoConnCall == [op |-> None, thread |-> 0, id |-> 0, status |-> None,
               pre |-> <<>>, cb |-> None, args |-> <<>>, calls |-> <<>>,
               fault |-> FALSE, reported |-> FALSE, released |-> 0]

\* register(callback): appends ConnectionRecord{callback, enabled = true}
\* under the connection-list lock and returns its index.
Register(t, cb) ==
  /\ cThreads[t].pc = "idle"
  /\ g_connection_mutex = 0
  /\ Len(issued) < MaxConns
  /\ g_connections' = Append(g_connections,
                             [callback_ref |-> cb, enabled |-> TRUE])
  /\ issued' = Append(issued, Len(g_connections))
  /\ ccall' = [NoConnCall EXCEPT !.op = "register", !.thread = t,
                                 !.id = Len(g_connections), !.status = "ok",
                                 !.pre = g_connections, !.cb = cb]
  /\ UNCHANGED <<g_connection_mutex, cThreads, disconnected>>

\* Mutant: the record is erased from the vector.
DisconnectRecord_Erase(conns, id) ==
  [j \in 1..(Len(conns) - 1) |-> IF j < id + 1 THEN conns[j] ELSE conns[j + 1]]

\* Mutant: the record is disabled but keeps its callback reference.
DisconnectRecord_KeepsRef(conns, id) ==
  [conns EXCEPT ![id + 1].enabled = FALSE]

\* The reference is released (lua_unref), callback_ref becomes LUA_NOREF and
\* the record is disabled; the record stays in the vector.
DisconnectRecord(conns, id) ==
  [conns EXCEPT ![id + 1] = [callback_ref |-> LUA_NOREF, enabled |-> FALSE]]

\* if (callback_ref != LUA_NOREF) lua_unref(L, callback_ref): the lua_unref
\* calls one Disconnect makes.
DisconnectUnrefs(conns, id) ==
  IF ValidIn(conns, id) /\ conns[id + 1].callback_ref # LUA_NOREF THEN 1 ELSE 0

\* connection_disconnect: under the lock, a valid id is disconnected; any
\* other id is ignored.
connection_disconnect(t, id) ==
  /\ cThreads[t].pc = "idle"
  /\ g_connection_mutex = 0
  /\ g_connections' = IF ValidId(id) THEN DisconnectRecord(g_connections, id)
                      ELSE g_connections
  /\ disconnected' = IF ValidId(id) THEN disconnected \cup {id}
                     ELSE disconnected
  /\ ccall' = [NoConnCall EXCEPT !.op = "disconnect", !.thread = t, !.id = id,
                                 !.status = "ok", !.pre = g_connections,
                                 !.released = DisconnectUnrefs(g_connections,
                                                               id)]
  /\ UNCHANGED <<g_connection_mutex, cThreads, issued>>

\* Mutant: an id out of range raises an error.
connection_setenabled_Raises(t, id, b) ==
  /\ cThreads[t].pc = "idle"
  /\ g_connection_mutex = 0
  /\ g_connections' = IF ValidId(id)
                        THEN [g_connections EXCEPT ![id + 1].enabled = b]
                      ELSE g_connections
  /\ ccall' = [NoConnCall EXCEPT !.op = IF b THEN "enable" ELSE "disable",
                                 !.thread = t, !.id = id,
                                 !.status = IF ValidId(id) THEN "ok" ELSE "error",
                                 !.pre = g_connections]
  /\ UNCHANGED <<g_connection_mutex, cThreads, issued, disconnected>>

\* connection_enable / connection_disable: under the lock, a valid id has
\* its enabled flag set; any other id is ignored.
connection_setenabled(t, id, b) ==
  /\ cThreads[t].pc = "idle"
  /\ g_connection_mutex = 0
  /\ g_connections' = IF ValidId(id)
                        THEN [g_connections EXCEPT ![id + 1].enabled = b]
                      ELSE g_connections
  /\ ccall' = [NoConnCall EXCEPT !.op = IF b THEN "enable" ELSE "disable",
                                 !.thread = t, !.id = id, !.status = "ok",
                                 !.pre = g_connections]
  /\ UNCHANGED <<g_connection_mutex, cThreads, issued, disconnected>>

\* Mutant: the count of arguments leaves out only self and _id.
FireNargs_OffByOne(top) == top - 2

\* int nargs = lua_gettop(L) - 3
FireNargs(top) == top - 3

\* The stack of connection_fire at lua_pcall: self and the arguments, the
\* _id field, the callback, and the copies of the stack slots 2..nargs+1.
FireStack(cb, args) ==
  LET base  == <<"self">> \o args \o <<"_id", cb>>
      nargs == FireNargs(Len(base))
  IN  [stack |-> base \o [i \in 1..nargs |-> base[i + 1]], nargs |-> nargs]

\* lua_pcall(L, nargs, 0, 0): the callee is below its nargs arguments.
PcallOf(fs) ==
  [cb   |-> fs.stack[Len(fs.stack) - fs.nargs],
   args |-> SubSeq(fs.stack, Len(fs.stack) - fs.nargs + 1, Len(fs.stack))]

\* connection_fire up to lua_pcall: the lock_guard takes the mutex; for a
\* valid, enabled id whose reference holds a function the callback is
\* entered with the mutex held; otherwise the function returns and the
\* lock_guard releases the mutex.
connection_fire(t, id, args) ==
  /\ cThreads[t].pc = "idle"
  /\ g_connection_mutex = 0
  /\ IF /\ ValidId(id)
        /\ g_connections[id + 1].enabled
        /\ g_connections[id + 1].callback_ref \in Functions
       THEN LET call == PcallOf(FireStack(g_connections[id + 1].callback_ref,
                                          args))
            IN  /\ g_connection_mutex' = t
                /\ cThreads' = [cThreads EXCEPT
                                  ![t] = [pc |-> "callback", id |-> id,
                                          cb |-> call.cb, args |-> args,
                                          inner |-> None]]
                /\ ccall' = [NoConnCall EXCEPT
                               !.op = "fire", !.thread = t, !.id = id,
                               !.status = "running", !.pre = g_connections,
                               !.args = args, !.calls = <<call>>]
       ELSE /\ ccall' = [NoConnCall EXCEPT !.op = "fire", !.thread = t,
                                           !.id = id, !.status = "ok",
                                           !.pre = g_connections,
                                           !.args = args]
            /\ UNCHANGED <<g_connection_mutex, cThreads>>
  /\ UNCHANGED <<g_connections, issued, disconnected>>

\* Mutant: lua_call, which lets the callback's error through.
PcallStatus_Call(fault) == IF fault THEN "error" ELSE "ok"

\* lua_pcall catches an error of the callee; its result is not looked at.
PcallStatus(fault) == "ok"

\* The callback returns or raises, lua_pcall returns, connection_fire
\* returns 0 and the lock_guard releases the mutex.  Nothing is written
\* to an error output.
connection_fire_return(t, fault) ==
  /\ cThreads[t].pc = "callback"
  /\ g_connection_mutex' = IF g_connection_mutex = t THEN 0
                            ELSE g_connection_mutex
  /\ cThreads' = [cThreads EXCEPT ![t] = IdleConn]
  /\ ccall' = [ccall EXCEPT !.op = "fired", !.status = PcallStatus(fault),
                            !.fault = fault, !.reported = FALSE]
  /\ UNCHANGED <<g_connections, issued, disconnected>>

\* The connection functions a callback can call; each of them starts with
\* std::lock_guard<std::mutex> lock(g_connection_mutex).
ConnMethods == {"Enable", "Disable", "Disconnect", "Fire", "getconnections"}

\* What locking a std::mutex does to the thread that owns it (undefined by
\* the standard): the thread waits for itself, or lock() throws
\* std::system_error.
RelockOutcomes == {"deadlock", "system_error"}

\* The callback run by connection_fire calls a connection function.  The
\* calling thread owns g_connection_mutex, so the lock_guard either never
\* returns, or throws; lua_pcall then ends the callback with a fault, or
\* the callback goes on if it called through pcall.  A thread that waits
\* is resumed only by an unlock, and the only unlock is its own return.
callback_lock(t, method, outcome) ==
  /\ cThreads[t].pc = "callback"
  /\ g_connection_mutex = t
  /\ cThreads' = [cThreads EXCEPT
                    ![t].pc = IF outcome = "deadlock" THEN "blocked"
                              ELSE "callback",
                    ![t].inner = method]
  /\ UNCHANGED <<g_connections, g_connection_mutex, ccall, issued,
                 disconnected>>

(***************************************************************************)
(* hookfunction and restorefunction called from several threads: the body  *)
(* of each runs under g_hook_mutex.                                        *)
(***************************************************************************)
IdleHook == [pc |-> "idle", op |-> None, target |-> None, hook |-> None,
             original_ref |-> 0, hook_ref |-> 0, it |-> NoEntry]

\* The references of rs that can still be taken within MaxRefs.
RoomIn(rs) == FreeLen(rs, rs.free) + (MaxRefs - Len(rs.slots))

\* hookfunction's body run in one piece on a registry and a reference array.
SerialHook(st, target, hook) ==
  LET r1 == lua_ref(st.refs, target)
      r2 == lua_ref(r1.rs, hook)
  IN  [reg  |-> MapAssign(st.reg, lua_topointer(target),
                          [L |-> "L", original_ref |-> r1.ref,
                           hook_ref |-> r2.ref]),
       refs |-> r2.rs]

\* restorefunction's body run in one piece.
SerialRestore(st, target) ==
  LET e == EntryOf(st.reg, lua_topointer(target))
  IN  IF e = NoEntry THEN st
      ELSE [reg  |-> MapErase(st.reg, lua_topointer(target)),
            refs |-> lua_unref(lua_unref(st.refs, e.original_ref), e.hook_ref)]

\* Mutant: the mutex excludes nobody.
HookMutexFree_Always(t) == TRUE

\* std::recursive_mutex: free, or already held by the locking thread.
HookMutexFree(t) == g_hook_mutex = 0 \/ g_hook_mutex = t

\* A thread enters hookfunction or restorefunction; the luaL_checktype
\* calls have passed.
HookEnter(t, op, target, hook) ==
  /\ hThreads[t].pc = "idle"
  /\ hThreads' = [hThreads EXCEPT ![t] = [IdleHook EXCEPT !.pc = "lock",
                                           !.op = op, !.target = target,
                                           !.hook = hook]]
  /\ UNCHANGED <<g_hook_registry, refs, g_hook_mutex, serial, released_twice,
                 overlapped>>

\* std::lock_guard<std::recursive_mutex> lock(g_hook_mutex)
HookLock(t) ==
  /\ hThreads[t].pc = "lock"
  /\ HookMutexFree(t)
  /\ hThreads[t].op = "hook" => RoomIn(serial.refs) >= 2
  /\ g_hook_mutex' = t
  /\ hThreads' = [hThreads EXCEPT ![t].pc = IF hThreads[t].op = "hook"
                                            THEN "ref_original" ELSE "find"]
  /\ serial' = IF hThreads[t].op = "hook"
                 THEN SerialHook(serial, hThreads[t].target, hThreads[t].hook)
               ELSE SerialRestore(serial, hThreads[t].target)
  /\ overlapped' = (overlapped \/ \E u \in Threads \ {t} :
                                    /\ hThreads[u].pc = "lock"
                                    /\ hThreads[u].target = hThreads[t].target)
  /\ UNCHANGED <<g_hook_registry, refs, released_twice>>

\* int original_ref = lua_ref(L, LUA_REGISTRYINDEX) on the target
HookRefOriginal(t) ==
  /\ hThreads[t].pc = "ref_original"
  /\ RoomIn(refs) >= 1
  /\ LET r == lua_ref(refs, hThreads[t].target)
     IN  /\ refs' = r.rs
         /\ hThreads' = [hThreads EXCEPT ![t].original_ref = r.ref,
                                         ![t].pc = "ref_hook"]
  /\ UNCHANGED <<g_hook_registry, g_hook_mutex, serial, released_twice,
                 overlapped>>

\* int hook_ref = lua_ref(L, LUA_REGISTRYINDEX) on the hook
HookRefHook(t) ==
  /\ hThreads[t].pc = "ref_hook"
  /\ RoomIn(refs) >= 1
  /\ LET r == lua_ref(refs, hThreads[t].hook)
     IN  /\ refs' = r.rs
         /\ hThreads' = [hThreads EXCEPT ![t].hook_ref = r.ref,
                                         ![t].pc = "assign"]
  /\ UNCHANGED <<g_hook_registry, g_hook_mutex, serial, released_twice,
                 overlapped>>

\* g_hook_registry[ptr] = entry
HookAssign(t) ==
  /\ hThreads[t].pc = "assign"
  /\ g_hook_registry' = MapAssign(g_hook_registry,
                                  lua_topointer(hThreads[t].target),
                                  [L |-> "L",
                                   original_ref |-> hThreads[t].original_ref,
                                   hook_ref |-> hThreads[t].hook_ref])
  /\ hThreads' = [hThreads EXCEPT ![t].pc = "unlock"]
  /\ UNCHANGED <<refs, g_hook_mutex, serial, released_twice, overlapped>>

\* auto it = g_hook_registry.find(ptr)
RestoreFind(t) ==
  /\ hThreads[t].pc = "find"
  /\ LET e == EntryOf(g_hook_registry, lua_topointer(hThreads[t].target))
     IN  hThreads' = [hThreads EXCEPT ![t].it = e,
                                     ![t].pc = IF e = NoEntry THEN "unlock"
                                               ELSE "unref_original"]
  /\ UNCHANGED <<g_hook_registry, refs, g_hook_mutex, serial, released_twice,
                 overlapped>>

\* lua_unref of one reference of the entry found; a reference that is not
\* held any more is recorded, and the array is left as it is.
RestoreUnref(t, pc, ref, next) ==
  /\ hThreads[t].pc = pc
  /\ IF refs.slots[ref].held
       THEN refs' = lua_unref(refs, ref) /\ UNCHANGED released_twice
       ELSE released_twice' = TRUE /\ UNCHANGED refs
  /\ hThreads' = [hThreads EXCEPT ![t].pc = next]
  /\ UNCHANGED <<g_hook_registry, g_hook_mutex, serial, overlapped>>

\* lua_unref(L, it->second.original_ref)
RestoreUnrefOriginal(t) ==
  RestoreUnref(t, "unref_original", hThreads[t].it.original_ref, "unref_hook")

\* lua_unref(L, it->second.hook_ref)
RestoreUnrefHook(t) ==
  RestoreUnref(t, "unref_hook", hThreads[t].it.hook_ref, "erase")

\* g_hook_registry.erase(it)
RestoreErase(t) ==
  /\ hThreads[t].pc = "erase"
  /\ g_hook_registry' = g_hook_registry \ {hThreads[t].it}
  /\ hThreads' = [hThreads EXCEPT ![t].pc = "unlock"]
  /\ UNCHANGED <<refs, g_hook_mutex, serial, released_twice, overlapped>>

\* The function returns and the lock_guard releases the mutex.
HookUnlock(t) ==
  /\ hThreads[t].pc = "unlock"
  /\ g_hook_mutex' = IF g_hook_mutex = t THEN 0 ELSE g_hook_mutex
  /\ hThreads' = [hThreads EXCEPT ![t] = IdleHook]
  /\ UNCHANGED <<g_hook_registry, refs, serial, released_twice, overlapped>>

(***************************************************************************)
(* The VM handle: xoron_vm_new, xoron_vm_free and xoron_vm_reset open and  *)
(* close Lua states, while g_hook_registry is a static of the process.     *)
(***************************************************************************)
Addrs == 1..NAddrs

\* Where the closures of a newly loaded script can be allocated: distinct
\* closures at distinct addresses; memory freed by lua_close can be given
\* out again (luau_alloc is realloc and free).
Heaps == {h \in [LClosures -> Addrs] :
            \A c, d \in LClosures : c # d => h[c] # h[d]}

NoHeap == [c \in LClosures |-> 0]

\* The reference array of a state lua_newstate has just made.
EmptyRefs == [slots |-> <<>>, free |-> 0]

\* What a call through the VM was and did: the state it ran in (L), for
\* restorefunction whether a record was found and which (entry), for
\* isexecutorclosure its result (ret).
NoVmCall == [op |-> None, L |-> 0, target |-> None, ret |-> FALSE,
             found |-> FALSE, entry |-> NoEntry]

\* vm->L = lua_newstate(...); luaL_openlibs; register_xoron_lib; then the
\* script's closures are loaded at the addresses h.
NewState(h) ==
  /\ nstates < MaxStates
  /\ vm' = [L |-> nstates + 1]
  /\ nstates' = nstates + 1
  /\ refs' = EmptyRefs
  /\ heap' = h
  /\ hookedIn' = {}
  /\ foreign_unref' = FALSE

xoron_vm_new(h) ==
  /\ vm.L = 0
  /\ NewState(h)
  /\ vcall' = [NoVmCall EXCEPT !.op = "vm_new", !.L = nstates + 1]
  /\ UNCHANGED g_hook_registry

\* lua_close(vm->L); delete vm
xoron_vm_free ==
  /\ vm.L # 0
  /\ vm' = [L |-> 0]
  /\ refs' = EmptyRefs
  /\ heap' = NoHeap
  /\ hookedIn' = {}
  /\ foreign_unref' = FALSE
  /\ vcall' = [NoVmCall EXCEPT !.op = "vm_free", !.L = vm.L]
  /\ UNCHANGED <<g_hook_registry, nstates>>

\* lua_close(vm->L); vm->L = lua_newstate(...)
xoron_vm_reset(h) ==
  /\ vm.L # 0
  /\ NewState(h)
  /\ vcall' = [NoVmCall EXCEPT !.op = "vm_reset", !.L = nstates + 1]
  /\ UNCHANGED g_hook_registry

\* hookfunction(target, hook) on script closures of the open state L:
\* two lua_ref(L, ...), entry.L = L, g_hook_registry[ptr] = entry.
state_hookfunction(target, hook) ==
  LET r1    == lua_ref(refs, target)
      r2    == lua_ref(r1.rs, hook)
      entry == [L |-> vm.L, original_ref |-> r1.ref, hook_ref |-> r2.ref]
  IN  /\ vm.L # 0
      /\ ~foreign_unref
      /\ Len(r2.rs.slots) <= MaxRefs
      /\ refs' = r2.rs
      /\ g_hook_registry' = MapAssign(g_hook_registry, heap[target], entry)
      /\ hookedIn' = hookedIn \cup {target}
      /\ vcall' = [NoVmCall EXCEPT !.op = "hookfunction", !.L = vm.L,
                                   !.target = target]
      /\ UNCHANGED <<vm, nstates, heap, foreign_unref>>

RECURSIVE PadTo(_, _)
\* The slots below n that the array does not have yet, as nil slots.
PadTo(slots, n) ==
  IF Len(slots) >= n THEN slots
  ELSE PadTo(Append(slots, [held |-> FALSE, next |-> 0]), n)

\* lua_unref(L, ref) where ref need not be a reference of L: luaH_setnum
\* makes the slot if the registry of L has none, and the slot joins the
\* head of the free list of L.
lua_unref_in(rs, ref) ==
  lua_unref([slots |-> PadTo(rs.slots, ref), free |-> rs.free], ref)

\* restorefunction(target) in the open state L: the record is found by
\* the address alone, and both of its references are released with
\* lua_unref(L, ...), whichever state took them.  Once references have
\* been released in a state that did not take them, the free list of that
\* state is not the one lua_ref keeps, and no further hook or restore
\* call is followed in it.
state_restorefunction(target) ==
  LET e     == EntryOf(g_hook_registry, heap[target])
      found == MapFind(g_hook_registry, heap[target]) # {}
  IN  /\ vm.L # 0
      /\ ~foreign_unref
      /\ IF found
           THEN /\ refs' = lua_unref_in(lua_unref_in(refs, e.original_ref),
                                        e.hook_ref)
                /\ g_hook_registry' = MapErase(g_hook_registry, heap[target])
                /\ foreign_unref' = (e.L # vm.L)
           ELSE UNCHANGED <<refs, g_hook_registry, foreign_unref>>
      /\ vcall' = [NoVmCall EXCEPT !.op = "restorefunction", !.L = vm.L,
                                   !.target = target, !.found = found,
                                   !.entry = e]
      /\ UNCHANGED <<vm, nstates, heap, hookedIn>>

\* isexecutorclosure(target) on a script closure of the open state:
\* g_hook_registry.find(ptr) != end(), else lua_iscfunction, which is false.
state_isexecutorclosure(target) ==
  /\ vm.L # 0
  /\ vcall' = [NoVmCall EXCEPT
                 !.op = "isexecutorclosure", !.L = vm.L, !.target = target,
                 !.ret = (MapFind(g_hook_registry, heap[target]) # {})]
  /\ UNCHANGED <<g_hook_registry, refs, vm, nstates, heap, hookedIn,
                 foreign_unref>>

(***************************************************************************)
(* getgc and filtergc: scans of the Lua registry table.                    *)
(***************************************************************************)
\* The collectable values the registry can hold: two script functions
\* named alpha, one named beta, the native function print, a table, a
\* userdata and a coroutine.
GcFunctions == {"alpha1", "alpha2", "beta", "print"}
GcValues == GcFunctions \cup {"tbl", "ud", "co"}

\* What lua_unref leaves in a slot: the number of the next free slot.
FreeSlot == "number"

\* lua_type of a registry value
ValueType(v) ==
  CASE v \in GcFunctions -> "function"
    [] v = "tbl"         -> "table"
    [] v = "ud"          -> "userdata"
    [] v = "co"          -> "thread"
    [] OTHER             -> "number"

\* lua_getinfo "n": the debug name of a function
DebugName(v) ==
  CASE v \in {"alpha1", "alpha2"} -> "alpha"
    [] v = "beta"                 -> "beta"
    [] OTHER                      -> "print"

\* lua_getinfo "u": the number of upvalues
NUpvals(v) == IF v = "alpha2" THEN 1 ELSE 0

\* lua_getinfo "S": the source label
Source(v) ==
  CASE v = "alpha1" -> "@game"
    [] v = "alpha2" -> "[string"
    [] v = "beta"   -> "@xoron"
    [] OTHER        -> "=[C]"

\* strstr(ar.source, "@xoron") || strstr(ar.source, "[string")
IsExecutorSource(src) == src \in {"@xoron", "[string"}

\* The first argument of filtergc, and the options table: a field that is
\* absent is None, or NoCount for a number.
FilterKinds == {"function", "table", "userdata"}
NoCount == 0 - 1
FilterOptions == [Name : {None, "alpha", "gamma"},
                  UpvalueCount : {NoCount, 1},
                  IgnoreExecutor : BOOLEAN]

NoOptions == [Name |-> None, UpvalueCount |-> NoCount,
              IgnoreExecutor |-> FALSE]

NoGcCall == [op |-> None, kind |-> None, options |-> NoOptions,
             include_tables |-> FALSE, status |-> None, ret |-> <<>>,
             pre |-> <<>>]

\* Mutant: coroutines are left out.
ShouldAdd_NoThread(include_tables, v) ==
  \/ ValueType(v) \in {"function", "userdata"}
  \/ include_tables /\ ValueType(v) = "table"

\* getgc: should_add
ShouldAdd(include_tables, v) ==
  \/ ValueType(v) \in {"function", "userdata", "thread"}
  \/ include_tables /\ ValueType(v) = "table"

\* getgc(include_tables): lua_next over the registry; the values that
\* should be added, in iteration order.
lua_getgc(include_tables) ==
  LET Keep(v) == ShouldAdd(include_tables, v)
  IN  /\ gcall' = [NoGcCall EXCEPT !.op = "getgc",
                                   !.include_tables = include_tables,
                                   !.status = "ok",
                                   !.ret = SelectSeq(registry, Keep),
                                   !.pre = registry]
      /\ UNCHANGED registry

\* filtergc: matches, for a value whose type is the filter type.  The
\* options are looked at for script functions only; ConstantCount is read
\* and never used.
FilterMatches(filter_type, options, v) ==
  IF filter_type = "function" /\ v \notin CClosures
    THEN /\ options.Name # None => DebugName(v) = options.Name
         /\ options.UpvalueCount # NoCount => NUpvals(v) = options.UpvalueCount
         /\ options.IgnoreExecutor => ~IsExecutorSource(Source(v))
  ELSE TRUE

\* filtergc(type, options): a type other than "function" and "table"
\* raises; otherwise lua_next over the registry and the values of the
\* filter type that match, in iteration order.
lua_filtergc(kind, options) ==
  LET Keep(v) == ValueType(v) = kind /\ FilterMatches(kind, options, v)
  IN  /\ gcall' = IF kind \in {"function", "table"}
                    THEN [NoGcCall EXCEPT !.op = "filtergc", !.kind = kind,
                                          !.options = options,
                                          !.status = "ok",
                                          !.ret = SelectSeq(registry, Keep),
                                          !.pre = registry]
                  ELSE [NoGcCall EXCEPT !.op = "filtergc", !.kind = kind,
                                        !.options = options,
                                        !.status = "error",
                                        !.pre = registry]
      /\ UNCHANGED registry

\* lua_ref of a value: the registry table gets one more value; the same
\* object can be referred to more than once.
registry_ref(v) ==
  /\ Len(registry) < MaxRegistry
  /\ registry' = Append(registry, v)
  /\ gcall' = [NoGcCall EXCEPT !.op = "ref"]

\* lua_unref of a slot: the slot keeps a number.
registry_unref(i) ==
  /\ registry[i] # FreeSlot
  /\ registry' = [registry EXCEPT ![i] = FreeSlot]
  /\ gcall' = [NoGcCall EXCEPT !.op = "unref"]

(***************************************************************************)
(* Thread identities.                                                      *)
(***************************************************************************)
\* The integers a script passes to setthreadidentity.
Levels == (0 - 2)..(MaxIdentity + 2)

NoIdentCall == [op |-> None, thread |-> 0, level |-> 0, status |-> None,
                ret |-> 0, pre |-> 0, priv |-> FALSE]

\* Mutant: every thread uses one key.
IdentityKey_Shared(t) == 1

\* std::this_thread::get_id()
IdentityKey(t) == t

\* get_current_identity: the entry of the calling thread, or else the default.
get_current_identity(t) ==
  IF IdentityKey(t) \in DOMAIN g_thread_identities
    THEN g_thread_identities[IdentityKey(t)]
  ELSE g_default_identity

\* Mutant: the identity is stored for every thread that has an entry.
set_current_identity_All(m, t, identity) ==
  [k \in DOMAIN m \cup {IdentityKey(t)} |-> identity]

\* set_current_identity: g_thread_identities[get_id()] = identity
set_current_identity(m, t, identity) ==
  [k \in DOMAIN m \cup {IdentityKey(t)} |->
     IF k = IdentityKey(t) THEN identity ELSE m[k]]

\* getthreadidentity()
lua_getthreadidentity(t) ==
  /\ icall' = [NoIdentCall EXCEPT !.op = "get", !.thread = t, !.status = "ok",
                                  !.ret = get_current_identity(t),
                                  !.pre = get_current_identity(t)]
  /\ UNCHANGED <<g_thread_identities, lastSet>>

\* Mutant: the threshold is exclusive.
IsExecutorIdentity_Above(identity) == identity > 2

\* identity >= 2
IsExecutorIdentity(identity) == identity >= 2

\* checkcaller()
lua_checkcaller(t) ==
  /\ icall' = [NoIdentCall EXCEPT
                 !.op = "checkcaller", !.thread = t, !.status = "ok",
                 !.pre = get_current_identity(t),
                 !.priv = IsExecutorIdentity(get_current_identity(t))]
  /\ UNCHANGED <<g_thread_identities, lastSet>>

\* printidentity(): console_output("Current identity is 2"), whatever the
\* identity of the calling thread is.
lua_printidentity(t) ==
  /\ icall' = [NoIdentCall EXCEPT !.op = "printidentity", !.thread = t,
                                  !.status = "ok", !.ret = PrintedIdentity,
                                  !.pre = get_current_identity(t)]
  /\ UNCHANGED <<g_thread_identities, lastSet>>

\* Mutant: the upper limit is not tested.
IdentityInRange_NoUpper(identity) == ~(identity < 0)

\* The negation of the test identity < 0 || identity > 8.
IdentityInRange(identity) == ~(identity < 0 \/ identity > MaxIdentity)

\* setthreadidentity(identity): luaL_error outside the range, otherwise
\* set_current_identity.
lua_setthreadidentity(t, identity) ==
  IF IdentityInRange(identity)
    THEN /\ g_thread_identities' =
              set_current_identity(g_thread_identities, t, identity)
         /\ lastSet' = [lastSet EXCEPT ![t] = identity]
         /\ icall' = [NoIdentCall EXCEPT !.op = "set", !.thread = t,
                                         !.level = identity, !.status = "ok",
                                         !.pre = get_current_identity(t)]
  ELSE /\ icall' = [NoIdentCall EXCEPT !.op = "set", !.thread = t,
                                       !.level = identity, !.status = "error",
                                       !.pre = get_current_identity(t)]
       /\ UNCHANGED <<g_thread_identities, lastSet>>

(***************************************************************************)
(* The hook engine and the environment manager as state machines.          *)
(***************************************************************************)
HookInit ==
  /\ behaviour = InitBehaviour
  /\ g_hook_registry = {}
  /\ refs = [slots |-> <<>>, free |-> 0]
  /\ lastHook = [c \in Functions |-> None]
  /\ hcall = NoCall
  /\ crashed = FALSE

EnvInit ==
  /\ globals = [n \in Names |-> "host"]
  /\ tables = <<>>
  /\ genv = 0
  /\ scriptEnvs = [isnil |-> TRUE, map |-> {}]
  /\ firstEnv = [k \in EnvKeys |-> 0]
  /\ written = [k \in EnvKeys |-> [n \in Names |-> Nil]]
  /\ ecall = NoEnvCall

MenvInit ==
  /\ moduleEnvs = [isnil |-> TRUE, map |-> {}]
  /\ firstMenv = [k \in MenvKeys |-> 0]
  /\ writtenM = [k \in MenvKeys |-> [n \in Names |-> Nil]]

RaceInit ==
  /\ rField = 0
  /\ rCaches = <<>>
  /\ rBuilt = [k \in Keys |-> 0]
  /\ rThreads = [t \in Threads |-> IdleThread]

MetaInit ==
  /\ metatables = [o \in Objects |->
                     IF o = "o1" THEN InitMetatable ELSE NoMetatable]
  /\ mcall = NoMetaCall
  /\ mcrashed = FALSE

ConnInit ==
  /\ g_connections = <<>>
  /\ g_connection_mutex = 0
  /\ cThreads = [t \in Threads |-> IdleConn]
  /\ ccall = NoConnCall
  /\ issued = <<>>
  /\ disconnected = {}

HraceInit ==
  /\ g_hook_mutex = 0
  /\ hThreads = [t \in Threads |-> IdleHook]
  /\ serial = [reg |-> {}, refs |-> [slots |-> <<>>, free |-> 0]]
  /\ released_twice = FALSE
  /\ overlapped = FALSE

IdentInit ==
  /\ g_thread_identities = <<>>
  /\ lastSet = [t \in Threads |-> 0 - 1]
  /\ icall = NoIdentCall

VmInit ==
  /\ vm = [L |-> 0]
  /\ nstates = 0
  /\ heap = NoHeap
  /\ hookedIn = {}
  /\ vcall = NoVmCall
  /\ foreign_unref = FALSE

GcInit ==
  /\ registry = <<>>
  /\ gcall = NoGcCall

Init ==
  /\ HookInit /\ EnvInit /\ MenvInit /\ RaceInit /\ MetaInit /\ ConnInit
  /\ HraceInit /\ IdentInit /\ VmInit /\ GcInit

\* A script calls hookfunction, restorefunction or isexecutorclosure with
\* any values; no call is made once the process has aborted.
HookFunction ==
  /\ ~crashed
  /\ \E t \in Values, h \in Values : lua_hookfunction(t, h)
  /\ UNCHANGED nonHookVars

RestoreFunction ==
  /\ ~crashed
  /\ \E t \in Values : lua_restorefunction(t)
  /\ UNCHANGED nonHookVars

IsExecutorClosure ==
  /\ ~crashed
  /\ \E c \in Values, fr \in BOOLEAN : lua_isexecutorclosure(c, fr)
  /\ UNCHANGED nonHookVars

HookNext ==
  \/ HookFunction
  \/ RestoreFunction
  \/ IsExecutorClosure

HookSpec == Init /\ [][HookNext]_vars

GetSenv ==
  /\ \E k \in KeyArgs : lua_getsenv(k)
  /\ UNCHANGED nonEnvVars

GetGenv ==
  /\ lua_getgenv
  /\ UNCHANGED nonEnvVars

WriteSenv ==
  /\ \E k \in Keys, n \in Names, v \in Vals : SenvWrite(k, n, v)
  /\ UNCHANGED nonEnvVars

WriteGenv ==
  /\ \E n \in Names, v \in Vals : GenvWrite(n, v)
  /\ UNCHANGED nonEnvVars

ReadEnv ==
  /\ \E k \in EnvKeys, n \in Names : EnvReadCall(k, n)
  /\ UNCHANGED nonEnvVars

WriteGlobal ==
  /\ \E n \in Names, v \in {"host", "host2"} : SetGlobal(n, v)
  /\ UNCHANGED nonEnvVars

EnvNext ==
  \/ GetSenv
  \/ GetGenv
  \/ WriteSenv
  \/ WriteGenv
  \/ ReadEnv
  \/ WriteGlobal

EnvSpec == Init /\ [][EnvNext]_vars

GetMenv ==
  /\ \E k \in MenvArgs : lua_getmenv(k)
  /\ UNCHANGED nonMenvVars

WriteMenv ==
  /\ \E k \in MenvKeys, n \in Names, v \in Vals : MenvWrite(k, n, v)
  /\ UNCHANGED nonMenvVars

MenvNext ==
  \/ GetMenv
  \/ WriteMenv

MenvSpec == Init /\ [][MenvNext]_vars

ThreadCall ==
  /\ \E t \in Threads, k \in Keys : SenvCall(t, k)
  /\ UNCHANGED nonRaceVars

ThreadGetField ==
  /\ \E t \in Threads : SenvGetField(t)
  /\ UNCHANGED nonRaceVars

ThreadNewCache ==
  /\ \E t \in Threads : SenvNewCache(t)
  /\ UNCHANGED nonRaceVars

ThreadRawGet ==
  /\ \E t \in Threads : SenvRawGet(t)
  /\ UNCHANGED nonRaceVars

ThreadNewEnv ==
  /\ \E t \in Threads : SenvNewEnv(t)
  /\ UNCHANGED nonRaceVars

SenvRaceNext ==
  \/ ThreadCall
  \/ ThreadGetField
  \/ ThreadNewCache
  \/ ThreadRawGet
  \/ ThreadNewEnv

SenvRaceSpec == Init /\ [][SenvRaceNext]_vars

HookMetamethod ==
  /\ ~mcrashed
  /\ \E o \in Objects, name \in MNames, h \in Values :
       lua_hookmetamethod(o, name, h)
  /\ UNCHANGED nonMetaVars

SetReadonly ==
  /\ ~mcrashed
  /\ \E o \in Objects, b \in BOOLEAN : lua_setreadonly_func(o, b)
  /\ UNCHANGED nonMetaVars

MetaNext ==
  \/ HookMetamethod
  \/ SetReadonly

MetaSpec == Init /\ [][MetaNext]_vars

ConnRegister ==
  /\ \E t \in Threads, cb \in LClosures : Register(t, cb)
  /\ UNCHANGED nonConnVars

ConnDisconnect ==
  /\ \E t \in Threads, id \in ConnIds : connection_disconnect(t, id)
  /\ UNCHANGED nonConnVars

ConnEnable ==
  /\ \E t \in Threads, id \in ConnIds : connection_setenabled(t, id, TRUE)
  /\ UNCHANGED nonConnVars

ConnDisable ==
  /\ \E t \in Threads, id \in ConnIds : connection_setenabled(t, id, FALSE)
  /\ UNCHANGED nonConnVars

ConnFire ==
  /\ \E t \in Threads, id \in ConnIds, args \in ArgLists :
       connection_fire(t, id, args)
  /\ UNCHANGED nonConnVars

ConnFireReturn ==
  /\ \E t \in Threads, fault \in BOOLEAN : connection_fire_return(t, fault)
  /\ UNCHANGED nonConnVars

ConnNext ==
  \/ ConnRegister
  \/ ConnDisconnect
  \/ ConnEnable
  \/ ConnDisable
  \/ ConnFire
  \/ ConnFireReturn

ConnSpec == Init /\ [][ConnNext]_vars

ConnCallbackCall ==
  /\ \E t \in Threads, method \in ConnMethods, outcome \in RelockOutcomes :
       callback_lock(t, method, outcome)
  /\ UNCHANGED nonConnVars

ConnLiveNext ==
  \/ ConnRegister
  \/ ConnDisconnect
  \/ ConnEnable
  \/ ConnDisable
  \/ ConnFire
  \/ ConnFireReturn
  \/ ConnCallbackCall

\* A thread that runs a callback goes on running: a callback that can
\* return does return and connection_fire's lock_guard unlocks.
ConnLiveSpec == Init /\ [][ConnLiveNext]_vars /\ WF_vars(ConnFireReturn)

ThreadHookEnter ==
  /\ \E t \in Threads, target \in LClosures, hook \in LClosures :
       HookEnter(t, "hook", target, hook)
  /\ UNCHANGED nonHraceVars

ThreadRestoreEnter ==
  /\ \E t \in Threads, target \in LClosures :
       HookEnter(t, "restore", target, None)
  /\ UNCHANGED nonHraceVars

ThreadHookLock ==
  /\ \E t \in Threads : HookLock(t)
  /\ UNCHANGED nonHraceVars

ThreadHookRefOriginal ==
  /\ \E t \in Threads : HookRefOriginal(t)
  /\ UNCHANGED nonHraceVars

ThreadHookRefHook ==
  /\ \E t \in Threads : HookRefHook(t)
  /\ UNCHANGED nonHraceVars

ThreadHookAssign ==
  /\ \E t \in Threads : HookAssign(t)
  /\ UNCHANGED nonHraceVars

ThreadRestoreFind ==
  /\ \E t \in Threads : RestoreFind(t)
  /\ UNCHANGED nonHraceVars

ThreadRestoreUnrefOriginal ==
  /\ \E t \in Threads : RestoreUnrefOriginal(t)
  /\ UNCHANGED nonHraceVars

ThreadRestoreUnrefHook ==
  /\ \E t \in Threads : RestoreUnrefHook(t)
  /\ UNCHANGED nonHraceVars

ThreadRestoreErase ==
  /\ \E t \in Threads : RestoreErase(t)
  /\ UNCHANGED nonHraceVars

ThreadHookUnlock ==
  /\ \E t \in Threads : HookUnlock(t)
  /\ UNCHANGED nonHraceVars

HookRaceNext ==
  \/ ThreadHookEnter
  \/ ThreadRestoreEnter
  \/ ThreadHookLock
  \/ ThreadHookRefOriginal
  \/ ThreadHookRefHook
  \/ ThreadHookAssign
  \/ ThreadRestoreFind
  \/ ThreadRestoreUnrefOriginal
  \/ ThreadRestoreUnrefHook
  \/ ThreadRestoreErase
  \/ ThreadHookUnlock

HookRaceSpec == Init /\ [][HookRaceNext]_vars

GetThreadIdentity ==
  /\ \E t \in Threads : lua_getthreadidentity(t)
  /\ UNCHANGED nonIdentVars

SetThreadIdentity ==
  /\ \E t \in Threads, identity \in Levels : lua_setthreadidentity(t, identity)
  /\ UNCHANGED nonIdentVars

CheckCaller ==
  /\ \E t \in Threads : lua_checkcaller(t)
  /\ UNCHANGED nonIdentVars

PrintIdentity ==
  /\ \E t \in Threads : lua_printidentity(t)
  /\ UNCHANGED nonIdentVars

IdentNext ==
  \/ GetThreadIdentity
  \/ SetThreadIdentity
  \/ CheckCaller
  \/ PrintIdentity

IdentSpec == Init /\ [][IdentNext]_vars

\* The host opens, resets and frees the VM; between that, scripts hook,
\* restore and query script closures of the open state.
VmNew ==
  /\ \E h \in Heaps : xoron_vm_new(h)
  /\ UNCHANGED nonVmVars

VmFree ==
  /\ xoron_vm_free
  /\ UNCHANGED nonVmVars

VmReset ==
  /\ \E h \in Heaps : xoron_vm_reset(h)
  /\ UNCHANGED nonVmVars

VmHookFunction ==
  /\ \E t \in LClosures, h \in LClosures : state_hookfunction(t, h)
  /\ UNCHANGED nonVmVars

VmRestoreFunction ==
  /\ \E t \in LClosures : state_restorefunction(t)
  /\ UNCHANGED nonVmVars

VmIsExecutorClosure ==
  /\ \E t \in LClosures : state_isexecutorclosure(t)
  /\ UNCHANGED nonVmVars

VmNext ==
  \/ VmNew
  \/ VmFree
  \/ VmReset
  \/ VmHookFunction
  \/ VmRestoreFunction
  \/ VmIsExecutorClosure

VmSpec == Init /\ [][VmNext]_vars

\* Scripts and the executor put values into the registry and release
\* them, and scripts scan it.
RegistryRef ==
  /\ \E v \in GcValues : registry_ref(v)
  /\ UNCHANGED nonGcVars

RegistryUnref ==
  /\ \E i \in DOMAIN registry : registry_unref(i)
  /\ UNCHANGED nonGcVars

GetGc ==
  /\ \E include_tables \in BOOLEAN : lua_getgc(include_tables)
  /\ UNCHANGED nonGcVars

FilterGc ==
  /\ \E kind \in FilterKinds, options \in FilterOptions :
       lua_filtergc(kind, options)
  /\ UNCHANGED nonGcVars

GcNext ==
  \/ RegistryRef
  \/ RegistryUnref
  \/ GetGc
  \/ FilterGc

GcSpec == Init /\ [][GcNext]_vars

(***************************************************************************)
(* Properties of the hook engine.                                          *)
(***************************************************************************)
HookedOk == hcall.op = "hookfunction" /\ hcall.status = "ok"
RestoredOk == hcall.op = "restorefunction" /\ hcall.status = "ok"
RecordOf(c) == EntryOf(g_hook_registry, lua_topointer(c))

\* C1: after orig = hook(f, g) succeeds for script closures f and g, invoking
\* f executes g's behaviour and invoking orig executes the behaviour f had
\* immediately before the call.
C1_HookRedirectsTarget ==
  (HookedOk /\ hcall.target \in LClosures /\ hcall.hook \in LClosures)
    => /\ Invoke(hcall.target) = hcall.hookBeh
       /\ hcall.retBeh = hcall.preBeh

\* C2: the references held in the Lua registry are exactly the original and
\* replacement references of the current hook records, two per record.
C2_HeldRefsAreRecordRefs ==
  /\ HeldRefs = UNION {{e.original_ref, e.hook_ref} : e \in g_hook_registry}
  /\ Cardinality(HeldRefs) = 2 * Cardinality(g_hook_registry)

\* C3: when hook(target, r1) is followed by hook(target, r2), the clone the
\* second call returns runs r1's behaviour, not the behaviour target had
\* before the first hook.
C3_RehookCloneIsFirstReplacement ==
  (HookedOk /\ hcall.target \in LClosures /\ hcall.had)
    => hcall.retBeh = Invoke(hcall.prevHook)

C5_OneRecordIffLastCallHook ==
  \A c \in Functions :
    Cardinality(MapFind(g_hook_registry, lua_topointer(c)))
      = IF lastHook[c] = "hook" THEN 1 ELSE 0

C5_Witness ==
  /\ HookedOk /\ hcall.had
  /\ \E c \in Functions : lastHook[c] = "restore"

\* C6: restore(f) on a hooked script function releases the two references of
\* f's record, each once, and removes the record: is_hooked(f) is false.
C6_RestoreReleasesAndRemoves ==
  (RestoredOk /\ hcall.had /\ hcall.target \in LClosures)
    => /\ hcall.unref = <<hcall.prev.original_ref, hcall.prev.hook_ref>>
       /\ hcall.prev.original_ref # hcall.prev.hook_ref
       /\ hcall.prev.original_ref \notin HeldRefs
       /\ hcall.prev.hook_ref \notin HeldRefs
       /\ ~HasRecord(hcall.target)
       /\ \A fr \in BOOLEAN : ~IsExecutorClosureResult(hcall.target, fr)

C6_Witness == RestoredOk /\ hcall.had /\ hcall.target \in LClosures

\* C7: restore on a function that has no hook record does not raise, releases
\* no reference and leaves no record for it.
C7_RestoreAbsentIsNoOp ==
  (hcall.op = "restorefunction" /\ hcall.target \in Functions /\ ~hcall.had)
    => /\ hcall.status = "ok"
       /\ hcall.unref = <<>>
       /\ ~HasRecord(hcall.target)

\* A restore without a record, after an earlier hook and restore.
C7_Witness ==
  /\ RestoredOk /\ ~hcall.had
  /\ Len(refs.slots) > 0 /\ HeldRefs = {}

\* C8: hook with a target or replacement that is not a function raises,
\* creates no record and takes no reference.
C8_HookTypeErrorChangesNothing ==
  [][\A t \in Values, h \in Values :
       ((lua_type(t) # "function" \/ lua_type(h) # "function")
          /\ lua_hookfunction(t, h))
        => /\ hcall'.status = "error"
           /\ UNCHANGED <<g_hook_registry, refs>>]_vars

\* A failed hook call on a target that is hooked.
C8_Witness ==
  /\ hcall.op = "hookfunction" /\ hcall.status = "error"
  /\ hcall.target \in LClosures /\ HasRecord(hcall.target)

\* C9: is_hooked(c) is true iff the registry holds a record for c or c is a
\* native function.
C9_IsHookedIffRecordOrNative ==
  /\ \A c \in Functions, fr \in BOOLEAN :
       IsExecutorClosureResult(c, fr) = (HasRecord(c) \/ c \in CClosures)
  /\ (hcall.op = "isexecutorclosure" /\ hcall.status = "ok")
       => hcall.retBool = (HasRecord(hcall.target) \/ hcall.target \in CClosures)

\* is_hooked answers false for a script function whose hook was restored.
C9_Witness ==
  /\ hcall.op = "isexecutorclosure" /\ hcall.status = "ok"
  /\ hcall.target \in LClosures /\ ~hcall.retBool
  /\ lastHook[hcall.target] = "restore"
  /\ Len(refs.slots) > 0

(***************************************************************************)
(* Properties of the environment manager.                                  *)
(***************************************************************************)
\* C10: every successful getsenv(k) returns the table the first getsenv(k)
\* returned, and reading a name through it yields the value last written
\* through the first handle.
C10_SenvSameInstance ==
  /\ (ecall.op = "getsenv" /\ ecall.status = "ok")
       => /\ ecall.ret = firstEnv[ecall.key]
          /\ \A n \in Names : tables[ecall.ret].data[n] = written[ecall.key][n]
  /\ \A k \in Keys :
       firstEnv[k] # 0 => /\ ~scriptEnvs.isnil
                          /\ RawGet(scriptEnvs.map, k) = firstEnv[k]

\* A later getsenv(k) whose table holds a value written through the first
\* handle, with another environment created in between.
C10_Witness ==
  /\ ecall.op = "getsenv" /\ ecall.status = "ok" /\ ecall.key \in Keys
  /\ \E n \in Names : written[ecall.key][n] # Nil
  /\ ecall.ret < Len(tables)

\* C12: a write of n into getsenv(k) leaves the host global table, and what
\* the global environment and every other script environment read for n,
\* as they were.
C12_SenvWriteIsLocal ==
  [][\A k \in Keys, n \in Names, v \in Vals :
       SenvWrite(k, n, v)
         => /\ globals' = globals
            /\ \A k2 \in EnvKeys \ {k} :
                 firstEnv[k2] # 0
                   => EnvReadIn(tables', globals', firstEnv[k2], n)
                        = EnvReadIn(tables, globals, firstEnv[k2], n)]_vars

\* A write through one script environment while the global environment and
\* the other script environment exist.
C12_Witness ==
  /\ ecall.op = "write" /\ ecall.key \in Keys
  /\ \A k \in EnvKeys : firstEnv[k] # 0

\* C13: reading n through getsenv(k) or getgenv() yields the table's own
\* entry when one was written there, and otherwise the host global table's
\* current value.
C13_ReadOwnElseGlobal ==
  /\ \A k \in EnvKeys, n \in Names :
       firstEnv[k] # 0
         => EnvRead(firstEnv[k], n)
              = IF written[k][n] # Nil THEN written[k][n] ELSE globals[n]
  /\ ecall.op = "read"
       => ecall.val = IF written[ecall.key][ecall.name] # Nil
                        THEN written[ecall.key][ecall.name]
                        ELSE globals[ecall.name]

\* A read that falls back to a global the host has changed since, while
\* another environment holds an entry of its own for the name.
C13_Witness ==
  /\ ecall.op = "read" /\ ecall.val = "host2"
  /\ \E k \in EnvKeys : written[k][ecall.name] # Nil

\* C16: every getgenv() returns the table the first getgenv() returned.
C16_GenvSameInstance ==
  /\ ecall.op = "getgenv" => ecall.ret # 0 /\ ecall.ret = firstEnv[GenvKey]
  /\ firstEnv[GenvKey] # 0 => genv = firstEnv[GenvKey]

\* A later getgenv() after script environments were created and the global
\* environment was written.
C16_Witness ==
  /\ ecall.op = "getgenv"
  /\ written[GenvKey]["x"] # Nil
  /\ Len(tables) > 1

C15_EnvOfAnyKeyNeverRaises ==
  (ecall.op \in {"getsenv", "getmenv"} /\ ecall.key # NoArg)
    => ecall.status = "ok" /\ ecall.ret # 0

\* C14: when several threads call getsenv(k) concurrently on first access,
\* exactly one table is constructed for k and every caller gets that table.
C14_ConcurrentSenvOneTable ==
  /\ \A k \in Keys : rBuilt[k] <= 1
  /\ \A t1, t2 \in Threads :
       (/\ rThreads[t1].pc = "done" /\ rThreads[t2].pc = "done"
        /\ rThreads[t1].key = rThreads[t2].key)
         => rThreads[t1].ret = rThreads[t2].ret

\* C17: after orig = hookmetamethod(o, name, h) succeeds, the metatable's
\* entry for name is h and orig runs what the previous handler ran.
C17_MetaHookInstallsAndReturnsOriginal ==
  (mcall.op = "hookmetamethod" /\ mcall.status = "ok")
    => /\ metatables[mcall.obj].entries[mcall.name] = mcall.hook
       /\ mcall.retBeh = Invoke(mcall.pre.entries[mcall.name])

\* C18: when hookmetamethod returns, with its result or with an error, the
\* metatable's readonly flag is what it was before the call.
C18_ReadonlyFlagRestored ==
  (mcall.op = "hookmetamethod" /\ mcall.status \in {"ok", "error"})
    => metatables[mcall.obj].readonly = mcall.pre.readonly

\* A successful hookmetamethod on a readonly metatable.
C18_Witness ==
  /\ mcall.op = "hookmetamethod" /\ mcall.status = "ok"
  /\ mcall.pre.readonly
  /\ metatables[mcall.obj].entries[mcall.name] # mcall.pre.entries[mcall.name]

\* C19: hookmetamethod raises an error when the object has no metatable or
\* the metatable has no entry for the name, and leaves the metatable and
\* its readonly flag as they were.
C19_MissingMetatableOrMethodRaises ==
  (/\ mcall.op = "hookmetamethod"
   /\ ~mcall.pre.has \/ mcall.pre.entries[mcall.name] = Nil)
    => /\ mcall.status = "error"
       /\ metatables[mcall.obj] = mcall.pre

\* hookmetamethod with a function, naming a metamethod the readonly
\* metatable of the object does not have.
C19_Witness ==
  /\ mcall.op = "hookmetamethod" /\ mcall.status = "error"
  /\ mcall.hook \in Functions
  /\ mcall.pre.has /\ mcall.pre.readonly
  /\ mcall.pre.entries[mcall.name] = Nil

\* C20: while a callback that fire invoked is running, the connection-list
\* lock is not held: fire releases it before it calls the callback.
C20_NoLockAcrossCallback ==
  \A t \in Threads : cThreads[t].pc = "callback" => g_connection_mutex = 0

\* C21: hookfunction and restorefunction calls of different threads are
\* atomic: whenever no call is inside its body, the hook registry and the
\* reference array are what the calls give when run one by one in the order
\* they took the mutex; no reference is released twice, and no record holds
\* a released reference.
C21_HookCallsSerializable ==
  /\ ~released_twice
  /\ (\A t \in Threads : hThreads[t].pc \in {"idle", "lock"})
       => /\ g_hook_registry = serial.reg
          /\ refs = serial.refs
          /\ \A e \in g_hook_registry :
               refs.slots[e.original_ref].held /\ refs.slots[e.hook_ref].held

\* Calls on one target that were pending at the same time have all
\* finished; a restore among them released references and a hook among them
\* left a record.
C21_Witness ==
  /\ overlapped
  /\ \A t \in Threads : hThreads[t].pc = "idle"
  /\ refs.free # 0
  /\ g_hook_registry # {}

\* C22: register(callback) appends a record holding the callback with
\* enabled = true and returns an index no earlier register returned; the
\* vector never shrinks.
C22_RegisterAppendsFreshIndex ==
  /\ \A j, k \in 1..Len(issued) : j # k => issued[j] # issued[k]
  /\ Len(g_connections) = Len(issued)
  /\ ccall.op = "register"
       => /\ ccall.id = Len(ccall.pre)
          /\ g_connections = Append(ccall.pre, [callback_ref |-> ccall.cb,
                                                enabled |-> TRUE])

\* A register after an earlier record was disconnected.
C22_Witness ==
  /\ ccall.op = "register"
  /\ disconnected # {}
  /\ Len(issued) > 1

\* C23: after disconnect(i), enable(i) does not raise and no fire(i, ...)
\* invokes a callback, whatever enable and disable calls came in between.
C23_DisconnectedNeverFires ==
  /\ ccall.op = "enable" => ccall.status = "ok"
  /\ (ccall.op \in {"fire", "fired"} /\ ccall.id \in disconnected)
       => ccall.calls = <<>>

\* A fire of a disconnected record that was enabled again.
C23_Witness ==
  /\ ccall.op = "fire"
  /\ ccall.id \in disconnected
  /\ g_connections[ccall.id + 1].enabled

\* C24: once disconnect(i) has released the callback, enable(i) and
\* disable(i) leave the record unchanged, so its enabled flag stays false.
C24_EnableAfterDisconnectIsNoOp ==
  /\ \A i \in disconnected : ~g_connections[i + 1].enabled
  /\ (ccall.op \in {"enable", "disable"} /\ ccall.id \in disconnected)
       => g_connections = ccall.pre

\* C25: fire(i, args) invokes the callback of record i once, inside the
\* call and with args in the given order, when the record is enabled and
\* holds a callback; otherwise it invokes nothing.
C25_FireInvokesOnceWithArgs ==
  /\ ccall.op \in {"fire", "fired"}
       => ccall.calls =
            IF /\ ValidIn(ccall.pre, ccall.id)
               /\ ccall.pre[ccall.id + 1].enabled
               /\ ccall.pre[ccall.id + 1].callback_ref \in Functions
              THEN <<[cb   |-> ccall.pre[ccall.id + 1].callback_ref,
                      args |-> ccall.args]>>
            ELSE <<>>
  /\ (ccall.op = "fire" /\ ccall.calls # <<>>)
       => /\ cThreads[ccall.thread].pc = "callback"
          /\ cThreads[ccall.thread].cb = ccall.calls[1].cb

\* A fire with two different arguments has invoked the callback and
\* returned.
C25_Witness ==
  /\ ccall.op = "fired"
  /\ ccall.args = <<1, 2>>
  /\ Len(ccall.calls) = 1

\* C26: a fault raised by the callback is caught: fire returns normally,
\* with the mutex free, the thread out of fire and the records as before,
\* so later fire calls work.
C26_CallbackFaultIsCaught ==
  ccall.op = "fired"
    => /\ ccall.status = "ok"
       /\ g_connection_mutex = 0
       /\ cThreads[ccall.thread].pc = "idle"
       /\ g_connections = ccall.pre

\* A fire whose callback raised has returned.
C26_Witness ==
  /\ ccall.op = "fired"
  /\ ccall.fault
  /\ Len(g_connections) > 1

\* C27: a fault raised by a callback that fire invoked has been reported
\* on the error output when fire returns.
C27_CallbackFaultIsReported ==
  (ccall.op = "fired" /\ ccall.fault) => ccall.reported

\* C28: enable(i) and disable(i) with i out of range do not raise and leave
\* every record unchanged.
C28_OutOfRangeEnableIsNoOp ==
  (ccall.op \in {"enable", "disable"} /\ ~ValidIn(ccall.pre, ccall.id))
    => /\ ccall.status = "ok"
       /\ g_connections = ccall.pre

\* enable or disable with a negative index, or with the number of records,
\* while records exist.
C28_Witness ==
  /\ ccall.op \in {"enable", "disable"}
  /\ ccall.id < 0 \/ ccall.id = Len(ccall.pre)
  /\ Len(ccall.pre) > 0

\* C29: setthreadidentity(level) raises an error and leaves the calling
\* thread's identity unchanged when level < 0 or level > 8, and succeeds
\* for every level in 0..8.
C29_SetIdentityRange ==
  icall.op = "set"
    => IF icall.level < 0 \/ icall.level > 8
         THEN /\ icall.status = "error"
              /\ get_current_identity(icall.thread) = icall.pre
         ELSE /\ icall.status = "ok"
              /\ get_current_identity(icall.thread) = icall.level

\* setthreadidentity(9) by a thread whose identity is not the default.
C29_Witness ==
  /\ icall.op = "set" /\ icall.level = 9
  /\ icall.pre # g_default_identity

\* C30: getthreadidentity returns the level of the calling thread's most
\* recent successful setthreadidentity, or the default 2 when the thread
\* never set one; the result is in 0..8.
C30_GetIdentityIsLastSetOrDefault ==
  icall.op = "get"
    => /\ icall.ret = IF lastSet[icall.thread] >= 0
                        THEN lastSet[icall.thread] ELSE 2
       /\ icall.ret \in 0..8

\* getthreadidentity by a thread that never set an identity, after another
\* thread set a different one.
C30_Witness ==
  /\ icall.op = "get"
  /\ lastSet[icall.thread] < 0
  /\ \E t \in Threads : lastSet[t] >= 0 /\ lastSet[t] # 2

\* C31: setthreadidentity on one thread never changes what
\* getthreadidentity returns on another thread.
C31_SetIdentityIsPerThread ==
  [][\A t \in Threads, identity \in Levels :
       lua_setthreadidentity(t, identity)
         => \A u \in Threads \ {t} :
              (IF u \in DOMAIN g_thread_identities'
                 THEN g_thread_identities'[u] ELSE g_default_identity)
              = get_current_identity(u)]_vars

\* A successful setthreadidentity while another thread holds a different
\* identity of its own.
C31_Witness ==
  /\ icall.op = "set" /\ icall.status = "ok"
  /\ \E u \in Threads \ {icall.thread} :
       /\ lastSet[u] >= 0
       /\ lastSet[u] # icall.level
       /\ get_current_identity(u) = lastSet[u]

\* C32: checkcaller is true exactly when the calling thread's identity is
\* at least 2; a thread that never set an identity is privileged.
C32_PrivilegedIffAtLeastTwo ==
  icall.op = "checkcaller"
    => /\ icall.priv <=> get_current_identity(icall.thread) >= 2
       /\ lastSet[icall.thread] < 0 => icall.priv

\* checkcaller by a thread whose identity is exactly 2 by its own set.
C32_Witness ==
  /\ icall.op = "checkcaller"
  /\ lastSet[icall.thread] = 2
  /\ icall.priv

\* C39: printidentity reports the calling thread's current identity.
C39_PrintIdentityReportsCurrent ==
  icall.op = "printidentity"
    => icall.ret = get_current_identity(icall.thread)

\* C36: a Fire whose callback calls Enable, Disable, Disconnect, Fire or
\* getconnections eventually returns.
C36_ReentrantFireReturns ==
  \A t \in Threads :
    (cThreads[t].pc = "callback") ~> (cThreads[t].pc = "idle")

\* C38: a record's callback reference is released at most once: Disconnect
\* of a record whose reference was released before releases nothing and
\* leaves the record as it was.
C38_SecondDisconnectChangesNothing ==
  ccall.op = "disconnect"
    => /\ ccall.released <= 1
       /\ (/\ ValidIn(ccall.pre, ccall.id)
           /\ ccall.pre[ccall.id + 1].callback_ref = LUA_NOREF)
            => /\ ccall.released = 0
               /\ g_connections = ccall.pre

\* C37: no hook record outlives the Lua state whose references it holds:
\* every record of g_hook_registry was made through the open state, so
\* isexecutorclosure is false for a script closure never hooked in the open
\* state, and restorefunction releases only references of the state that
\* took them.
C37_NoHookRecordOutlivesState ==
  /\ \A e \in g_hook_registry : e.L = vm.L
  /\ (vcall.op = "isexecutorclosure" /\ vcall.target \notin hookedIn)
       => ~vcall.ret
  /\ (vcall.op = "restorefunction" /\ vcall.found)
       => vcall.entry.L = vcall.L

Range(seq) == {seq[i] : i \in DOMAIN seq}

\* The number of places of seq that hold v.
Occurrences(seq, v) == Cardinality({i \in DOMAIN seq : seq[i] = v})

NameOnly(options) ==
  /\ options.Name # None
  /\ options.UpvalueCount = NoCount
  /\ ~options.IgnoreExecutor

\* C33: filtergc("function", {Name = n}) returns exactly the functions of
\* the registry whose name is n: every entry of the result is a function
\* named n, and every function of the registry named n is in the result
\* once.
C33_FilterByNameIsExact ==
  (gcall.op = "filtergc" /\ gcall.kind = "function" /\ NameOnly(gcall.options))
    => /\ gcall.status = "ok"
       /\ \A v \in Range(gcall.ret) :
            ValueType(v) = "function" /\ DebugName(v) = gcall.options.Name
       /\ \A v \in Range(gcall.pre) :
            (ValueType(v) = "function" /\ DebugName(v) = gcall.options.Name)
              => Occurrences(gcall.ret, v) = 1

\* An object of the given kind that meets every criterion that is given.
MeetsCriteria(kind, options, v) ==
  /\ ValueType(v) = kind
  /\ kind = "function"
       => /\ options.Name # None => DebugName(v) = options.Name
          /\ options.UpvalueCount # NoCount => NUpvals(v) = options.UpvalueCount
          /\ options.IgnoreExecutor => ~IsExecutorSource(Source(v))

\* C34: filtergc with a kind other than "function" and "table" raises an
\* error; with one of these kinds it never raises, and when no object of
\* the registry meets the criteria the result is empty.
C34_FilterKindErrorOnly ==
  gcall.op = "filtergc"
    => IF gcall.kind \in {"function", "table"}
         THEN /\ gcall.status = "ok"
              /\ (\A v \in Range(gcall.pre) :
                     ~MeetsCriteria(gcall.kind, gcall.options, v))
                   => gcall.ret = <<>>
       ELSE gcall.status = "error"

\* C35: getgc(include_tables) returns every function, userdata and
\* coroutine that is in the registry when it is called, as often as the
\* registry holds it, and the tables of the registry if and only if
\* include_tables is true; it returns nothing else.
C35_GetGcReturnsRegistryObjects ==
  gcall.op = "getgc"
    => /\ gcall.status = "ok"
       /\ \A v \in Range(gcall.pre) :
            ValueType(v) \in {"function", "userdata", "thread"}
              => Occurrences(gcall.ret, v) = Occurrences(gcall.pre, v)
       /\ \A v \in Range(gcall.pre) :
            ValueType(v) = "table"
              => Occurrences(gcall.ret, v)
                   = IF gcall.include_tables THEN Occurrences(gcall.pre, v)
                     ELSE 0
       /\ \A v \in Range(gcall.ret) :
            v \in Range(gcall.pre) /\ ValueType(v) # "number"

\* getgc with and without tables on a registry that holds a function, a
\* coroutine, a table and a released slot.
C35_Witness ==
  /\ gcall.op = "getgc"
  /\ {"co", "tbl", FreeSlot} \subseteq Range(gcall.pre)
  /\ ~gcall.include_tables
  /\ gcall.ret = <<"co">>

====
